---------------------------- MODULE Spec2Model ----------------------------
(***************************************************************************)
(* Model of the markdown normalizer of pkt-tui (src/src/markdown.rs).      *)
(*                                                                         *)
(* Text is modelled as a sequence of Unicode code points (a Rust `char`    *)
(* is its scalar value), so that "a# b" is <<97, 35, 32, 98>>.  A Rust     *)
(* &str is indexed by BYTE offset while chars().enumerate() counts CHARS;  *)
(* both notions are kept apart here: Utf8Len gives the encoded width of a  *)
(* char, and slicing at a byte offset that is not a char boundary aborts   *)
(* the call (Rust panics), which the state machine records as              *)
(* pc = "panicked".                                                        *)
(***************************************************************************)
EXTENDS Integers, Sequences, FiniteSets

(***************************************************************************)
(* Character literals of the source.                                       *)
(***************************************************************************)
HASH == 35
BACKTICK == 96
LBRACKET == 91
RBRACKET == 93
LPAREN == 40
RPAREN == 41
LT == 60
GT == 62
DOT == 46
STAR == 42
DASH == 45
QUOTE == 39
DQUOTE == 34
SPACE == 32
NEWLINE == 10
CARRIAGE_RETURN == 13
\* `spaces / 4` and the four-space indentation unit "    "
INDENT_WIDTH == 4
\* markdown_lines.windows(3)
WINDOW == 3

\* String literals of the source, as code points.
FENCE == <<BACKTICK, BACKTICK, BACKTICK>>
DOUBLE_HASH == <<HASH, HASH>>
\* "## Related posts"
RELATED_POSTS == <<35, 35, 32, 82, 101, 108, 97, 116, 101, 100, 32, 112, 111, 115, 116, 115>>
\* "Blog Comments"
BLOG_COMMENTS == <<66, 108, 111, 103, 32, 67, 111, 109, 109, 101, 110, 116, 115>>
\* "Contents"
CONTENTS == <<67, 111, 110, 116, 101, 110, 116, 115>>
\* "Summary"
SUMMARY == <<83, 117, 109, 109, 97, 114, 121>>
\* "\n", "\n\n" and the separator "\n*" used by the pre-spacing flush
SEP_NL == <<NEWLINE>>
SEP_PARA == <<NEWLINE, NEWLINE>>
SEP_NL_STAR == <<NEWLINE, STAR>>

(***************************************************************************)
(* char predicates (core::char) over all of Unicode.                       *)
(***************************************************************************)
\* char::is_whitespace: the code points with the White_Space property.
is_whitespace(c) ==
    c \in (9..13) \cup {32, 133, 160, 5760} \cup (8192..8202)
          \cup {8232, 8233, 8239, 8287, 12288}
is_ascii_digit(c) == c \in 48..57
is_ascii_lowercase(c) == c \in 97..122

\* The ranges <<first, last>> of the code points that are Alphabetic or have
\* general category Nd, Nl or No in the Unicode data of the standard library
\* (Unicode 17): 844 ranges, 149106 code points.
AlphanumericRanges ==
    {
      <<48, 57>>, <<65, 90>>, <<97, 122>>, <<170, 170>>, <<178, 179>>,
      <<181, 181>>, <<185, 186>>, <<188, 190>>, <<192, 214>>, <<216, 246>>,
      <<248, 705>>, <<710, 721>>, <<736, 740>>, <<748, 748>>, <<750, 750>>,
      <<837, 837>>, <<867, 884>>, <<886, 887>>, <<890, 893>>, <<895, 895>>,
      <<902, 902>>, <<904, 906>>, <<908, 908>>, <<910, 929>>, <<931, 1013>>,
      <<1015, 1153>>, <<1162, 1327>>, <<1329, 1366>>, <<1369, 1369>>, <<1376, 1416>>,
      <<1456, 1469>>, <<1471, 1471>>, <<1473, 1474>>, <<1476, 1477>>, <<1479, 1479>>,
      <<1488, 1514>>, <<1519, 1522>>, <<1552, 1562>>, <<1568, 1623>>, <<1625, 1641>>,
      <<1646, 1747>>, <<1749, 1756>>, <<1761, 1768>>, <<1773, 1788>>, <<1791, 1791>>,
      <<1808, 1855>>, <<1869, 1969>>, <<1984, 2026>>, <<2036, 2037>>, <<2042, 2042>>,
      <<2048, 2071>>, <<2074, 2092>>, <<2112, 2136>>, <<2144, 2154>>, <<2160, 2183>>,
      <<2185, 2191>>, <<2199, 2199>>, <<2208, 2249>>, <<2260, 2271>>, <<2275, 2281>>,
      <<2288, 2363>>, <<2365, 2380>>, <<2382, 2384>>, <<2389, 2403>>, <<2406, 2415>>,
      <<2417, 2435>>, <<2437, 2444>>, <<2447, 2448>>, <<2451, 2472>>, <<2474, 2480>>,
      <<2482, 2482>>, <<2486, 2489>>, <<2493, 2500>>, <<2503, 2504>>, <<2507, 2508>>,
      <<2510, 2510>>, <<2519, 2519>>, <<2524, 2525>>, <<2527, 2531>>, <<2534, 2545>>,
      <<2548, 2553>>, <<2556, 2556>>, <<2561, 2563>>, <<2565, 2570>>, <<2575, 2576>>,
      <<2579, 2600>>, <<2602, 2608>>, <<2610, 2611>>, <<2613, 2614>>, <<2616, 2617>>,
      <<2622, 2626>>, <<2631, 2632>>, <<2635, 2636>>, <<2641, 2641>>, <<2649, 2652>>,
      <<2654, 2654>>, <<2662, 2677>>, <<2689, 2691>>, <<2693, 2701>>, <<2703, 2705>>,
      <<2707, 2728>>, <<2730, 2736>>, <<2738, 2739>>, <<2741, 2745>>, <<2749, 2757>>,
      <<2759, 2761>>, <<2763, 2764>>, <<2768, 2768>>, <<2784, 2787>>, <<2790, 2799>>,
      <<2809, 2812>>, <<2817, 2819>>, <<2821, 2828>>, <<2831, 2832>>, <<2835, 2856>>,
      <<2858, 2864>>, <<2866, 2867>>, <<2869, 2873>>, <<2877, 2884>>, <<2887, 2888>>,
      <<2891, 2892>>, <<2902, 2903>>, <<2908, 2909>>, <<2911, 2915>>, <<2918, 2927>>,
      <<2929, 2935>>, <<2946, 2947>>, <<2949, 2954>>, <<2958, 2960>>, <<2962, 2965>>,
      <<2969, 2970>>, <<2972, 2972>>, <<2974, 2975>>, <<2979, 2980>>, <<2984, 2986>>,
      <<2990, 3001>>, <<3006, 3010>>, <<3014, 3016>>, <<3018, 3020>>, <<3024, 3024>>,
      <<3031, 3031>>, <<3046, 3058>>, <<3072, 3084>>, <<3086, 3088>>, <<3090, 3112>>,
      <<3114, 3129>>, <<3133, 3140>>, <<3142, 3144>>, <<3146, 3148>>, <<3157, 3158>>,
      <<3160, 3162>>, <<3164, 3165>>, <<3168, 3171>>, <<3174, 3183>>, <<3192, 3198>>,
      <<3200, 3203>>, <<3205, 3212>>, <<3214, 3216>>, <<3218, 3240>>, <<3242, 3251>>,
      <<3253, 3257>>, <<3261, 3268>>, <<3270, 3272>>, <<3274, 3276>>, <<3285, 3286>>,
      <<3292, 3294>>, <<3296, 3299>>, <<3302, 3311>>, <<3313, 3315>>, <<3328, 3340>>,
      <<3342, 3344>>, <<3346, 3386>>, <<3389, 3396>>, <<3398, 3400>>, <<3402, 3404>>,
      <<3406, 3406>>, <<3412, 3427>>, <<3430, 3448>>, <<3450, 3455>>, <<3457, 3459>>,
      <<3461, 3478>>, <<3482, 3505>>, <<3507, 3515>>, <<3517, 3517>>, <<3520, 3526>>,
      <<3535, 3540>>, <<3542, 3542>>, <<3544, 3551>>, <<3558, 3567>>, <<3570, 3571>>,
      <<3585, 3642>>, <<3648, 3654>>, <<3661, 3661>>, <<3664, 3673>>, <<3713, 3714>>,
      <<3716, 3716>>, <<3718, 3722>>, <<3724, 3747>>, <<3749, 3749>>, <<3751, 3769>>,
      <<3771, 3773>>, <<3776, 3780>>, <<3782, 3782>>, <<3789, 3789>>, <<3792, 3801>>,
      <<3804, 3807>>, <<3840, 3840>>, <<3872, 3891>>, <<3904, 3911>>, <<3913, 3948>>,
      <<3953, 3971>>, <<3976, 3991>>, <<3993, 4028>>, <<4096, 4150>>, <<4152, 4152>>,
      <<4155, 4169>>, <<4176, 4253>>, <<4256, 4293>>, <<4295, 4295>>, <<4301, 4301>>,
      <<4304, 4346>>, <<4348, 4680>>, <<4682, 4685>>, <<4688, 4694>>, <<4696, 4696>>,
      <<4698, 4701>>, <<4704, 4744>>, <<4746, 4749>>, <<4752, 4784>>, <<4786, 4789>>,
      <<4792, 4798>>, <<4800, 4800>>, <<4802, 4805>>, <<4808, 4822>>, <<4824, 4880>>,
      <<4882, 4885>>, <<4888, 4954>>, <<4969, 4988>>, <<4992, 5007>>, <<5024, 5109>>,
      <<5112, 5117>>, <<5121, 5740>>, <<5743, 5759>>, <<5761, 5786>>, <<5792, 5866>>,
      <<5870, 5880>>, <<5888, 5907>>, <<5919, 5939>>, <<5952, 5971>>, <<5984, 5996>>,
      <<5998, 6000>>, <<6002, 6003>>, <<6016, 6067>>, <<6070, 6088>>, <<6103, 6103>>,
      <<6108, 6108>>, <<6112, 6121>>, <<6128, 6137>>, <<6160, 6169>>, <<6176, 6264>>,
      <<6272, 6314>>, <<6320, 6389>>, <<6400, 6430>>, <<6432, 6443>>, <<6448, 6456>>,
      <<6470, 6509>>, <<6512, 6516>>, <<6528, 6571>>, <<6576, 6601>>, <<6608, 6618>>,
      <<6656, 6683>>, <<6688, 6750>>, <<6753, 6772>>, <<6784, 6793>>, <<6800, 6809>>,
      <<6823, 6823>>, <<6847, 6848>>, <<6860, 6862>>, <<6912, 6963>>, <<6965, 6979>>,
      <<6981, 6988>>, <<6992, 7001>>, <<7040, 7081>>, <<7084, 7141>>, <<7143, 7153>>,
      <<7168, 7222>>, <<7232, 7241>>, <<7245, 7293>>, <<7296, 7306>>, <<7312, 7354>>,
      <<7357, 7359>>, <<7401, 7404>>, <<7406, 7411>>, <<7413, 7414>>, <<7418, 7418>>,
      <<7424, 7615>>, <<7635, 7668>>, <<7680, 7957>>, <<7960, 7965>>, <<7968, 8005>>,
      <<8008, 8013>>, <<8016, 8023>>, <<8025, 8025>>, <<8027, 8027>>, <<8029, 8029>>,
      <<8031, 8061>>, <<8064, 8116>>, <<8118, 8124>>, <<8126, 8126>>, <<8130, 8132>>,
      <<8134, 8140>>, <<8144, 8147>>, <<8150, 8155>>, <<8160, 8172>>, <<8178, 8180>>,
      <<8182, 8188>>, <<8304, 8305>>, <<8308, 8313>>, <<8319, 8329>>, <<8336, 8348>>,
      <<8450, 8450>>, <<8455, 8455>>, <<8458, 8467>>, <<8469, 8469>>, <<8473, 8477>>,
      <<8484, 8484>>, <<8486, 8486>>, <<8488, 8488>>, <<8490, 8493>>, <<8495, 8505>>,
      <<8508, 8511>>, <<8517, 8521>>, <<8526, 8526>>, <<8528, 8585>>, <<9312, 9371>>,
      <<9398, 9471>>, <<10102, 10131>>, <<11264, 11492>>, <<11499, 11502>>, <<11506, 11507>>,
      <<11517, 11517>>, <<11520, 11557>>, <<11559, 11559>>, <<11565, 11565>>, <<11568, 11623>>,
      <<11631, 11631>>, <<11648, 11670>>, <<11680, 11686>>, <<11688, 11694>>, <<11696, 11702>>,
      <<11704, 11710>>, <<11712, 11718>>, <<11720, 11726>>, <<11728, 11734>>, <<11736, 11742>>,
      <<11744, 11775>>, <<11823, 11823>>, <<12293, 12295>>, <<12321, 12329>>, <<12337, 12341>>,
      <<12344, 12348>>, <<12353, 12438>>, <<12445, 12447>>, <<12449, 12538>>, <<12540, 12543>>,
      <<12549, 12591>>, <<12593, 12686>>, <<12690, 12693>>, <<12704, 12735>>, <<12784, 12799>>,
      <<12832, 12841>>, <<12872, 12879>>, <<12881, 12895>>, <<12928, 12937>>, <<12977, 12991>>,
      <<13312, 19903>>, <<19968, 42124>>, <<42192, 42237>>, <<42240, 42508>>, <<42512, 42539>>,
      <<42560, 42606>>, <<42612, 42619>>, <<42623, 42735>>, <<42775, 42783>>, <<42786, 42888>>,
      <<42891, 42972>>, <<42993, 43013>>, <<43015, 43047>>, <<43056, 43061>>, <<43072, 43123>>,
      <<43136, 43203>>, <<43205, 43205>>, <<43216, 43225>>, <<43250, 43255>>, <<43259, 43259>>,
      <<43261, 43306>>, <<43312, 43346>>, <<43360, 43388>>, <<43392, 43442>>, <<43444, 43455>>,
      <<43471, 43481>>, <<43488, 43518>>, <<43520, 43574>>, <<43584, 43597>>, <<43600, 43609>>,
      <<43616, 43638>>, <<43642, 43710>>, <<43712, 43712>>, <<43714, 43714>>, <<43739, 43741>>,
      <<43744, 43759>>, <<43762, 43765>>, <<43777, 43782>>, <<43785, 43790>>, <<43793, 43798>>,
      <<43808, 43814>>, <<43816, 43822>>, <<43824, 43866>>, <<43868, 43881>>, <<43888, 44010>>,
      <<44016, 44025>>, <<44032, 55203>>, <<55216, 55238>>, <<55243, 55291>>, <<63744, 64109>>,
      <<64112, 64217>>, <<64256, 64262>>, <<64275, 64279>>, <<64285, 64296>>, <<64298, 64310>>,
      <<64312, 64316>>, <<64318, 64318>>, <<64320, 64321>>, <<64323, 64324>>, <<64326, 64433>>,
      <<64467, 64829>>, <<64848, 64911>>, <<64914, 64967>>, <<65008, 65019>>, <<65136, 65140>>,
      <<65142, 65276>>, <<65296, 65305>>, <<65313, 65338>>, <<65345, 65370>>, <<65382, 65470>>,
      <<65474, 65479>>, <<65482, 65487>>, <<65490, 65495>>, <<65498, 65500>>, <<65536, 65547>>,
      <<65549, 65574>>, <<65576, 65594>>, <<65596, 65597>>, <<65599, 65613>>, <<65616, 65629>>,
      <<65664, 65786>>, <<65799, 65843>>, <<65856, 65912>>, <<65930, 65931>>, <<66176, 66204>>,
      <<66208, 66256>>, <<66273, 66299>>, <<66304, 66339>>, <<66349, 66378>>, <<66384, 66426>>,
      <<66432, 66461>>, <<66464, 66499>>, <<66504, 66511>>, <<66513, 66517>>, <<66560, 66717>>,
      <<66720, 66729>>, <<66736, 66771>>, <<66776, 66811>>, <<66816, 66855>>, <<66864, 66915>>,
      <<66928, 66938>>, <<66940, 66954>>, <<66956, 66962>>, <<66964, 66965>>, <<66967, 66977>>,
      <<66979, 66993>>, <<66995, 67001>>, <<67003, 67004>>, <<67008, 67059>>, <<67072, 67382>>,
      <<67392, 67413>>, <<67424, 67431>>, <<67456, 67461>>, <<67463, 67504>>, <<67506, 67514>>,
      <<67584, 67589>>, <<67592, 67592>>, <<67594, 67637>>, <<67639, 67640>>, <<67644, 67644>>,
      <<67647, 67669>>, <<67672, 67702>>, <<67705, 67742>>, <<67751, 67759>>, <<67808, 67826>>,
      <<67828, 67829>>, <<67835, 67867>>, <<67872, 67897>>, <<67904, 67929>>, <<67968, 68023>>,
      <<68028, 68047>>, <<68050, 68099>>, <<68101, 68102>>, <<68108, 68115>>, <<68117, 68119>>,
      <<68121, 68149>>, <<68160, 68168>>, <<68192, 68222>>, <<68224, 68255>>, <<68288, 68295>>,
      <<68297, 68324>>, <<68331, 68335>>, <<68352, 68405>>, <<68416, 68437>>, <<68440, 68466>>,
      <<68472, 68497>>, <<68521, 68527>>, <<68608, 68680>>, <<68736, 68786>>, <<68800, 68850>>,
      <<68858, 68903>>, <<68912, 68921>>, <<68928, 68965>>, <<68969, 68969>>, <<68975, 68997>>,
      <<69216, 69246>>, <<69248, 69289>>, <<69291, 69292>>, <<69296, 69297>>, <<69314, 69319>>,
      <<69370, 69372>>, <<69376, 69415>>, <<69424, 69445>>, <<69457, 69460>>, <<69488, 69505>>,
      <<69552, 69579>>, <<69600, 69622>>, <<69632, 69701>>, <<69714, 69743>>, <<69745, 69749>>,
      <<69760, 69816>>, <<69826, 69826>>, <<69840, 69864>>, <<69872, 69881>>, <<69888, 69938>>,
      <<69942, 69951>>, <<69956, 69959>>, <<69968, 70002>>, <<70006, 70006>>, <<70016, 70079>>,
      <<70081, 70084>>, <<70094, 70106>>, <<70108, 70108>>, <<70113, 70132>>, <<70144, 70161>>,
      <<70163, 70196>>, <<70199, 70199>>, <<70206, 70209>>, <<70272, 70278>>, <<70280, 70280>>,
      <<70282, 70285>>, <<70287, 70301>>, <<70303, 70312>>, <<70320, 70376>>, <<70384, 70393>>,
      <<70400, 70403>>, <<70405, 70412>>, <<70415, 70416>>, <<70419, 70440>>, <<70442, 70448>>,
      <<70450, 70451>>, <<70453, 70457>>, <<70461, 70468>>, <<70471, 70472>>, <<70475, 70476>>,
      <<70480, 70480>>, <<70487, 70487>>, <<70493, 70499>>, <<70528, 70537>>, <<70539, 70539>>,
      <<70542, 70542>>, <<70544, 70581>>, <<70583, 70592>>, <<70594, 70594>>, <<70597, 70597>>,
      <<70599, 70602>>, <<70604, 70605>>, <<70609, 70609>>, <<70611, 70611>>, <<70656, 70721>>,
      <<70723, 70725>>, <<70727, 70730>>, <<70736, 70745>>, <<70751, 70753>>, <<70784, 70849>>,
      <<70852, 70853>>, <<70855, 70855>>, <<70864, 70873>>, <<71040, 71093>>, <<71096, 71102>>,
      <<71128, 71133>>, <<71168, 71230>>, <<71232, 71232>>, <<71236, 71236>>, <<71248, 71257>>,
      <<71296, 71349>>, <<71352, 71352>>, <<71360, 71369>>, <<71376, 71395>>, <<71424, 71450>>,
      <<71453, 71466>>, <<71472, 71483>>, <<71488, 71494>>, <<71680, 71736>>, <<71840, 71922>>,
      <<71935, 71942>>, <<71945, 71945>>, <<71948, 71955>>, <<71957, 71958>>, <<71960, 71989>>,
      <<71991, 71992>>, <<71995, 71996>>, <<71999, 72002>>, <<72016, 72025>>, <<72096, 72103>>,
      <<72106, 72151>>, <<72154, 72159>>, <<72161, 72161>>, <<72163, 72164>>, <<72192, 72242>>,
      <<72245, 72254>>, <<72272, 72343>>, <<72349, 72349>>, <<72368, 72440>>, <<72544, 72551>>,
      <<72640, 72672>>, <<72688, 72697>>, <<72704, 72712>>, <<72714, 72758>>, <<72760, 72766>>,
      <<72768, 72768>>, <<72784, 72812>>, <<72818, 72847>>, <<72850, 72871>>, <<72873, 72886>>,
      <<72960, 72966>>, <<72968, 72969>>, <<72971, 73014>>, <<73018, 73018>>, <<73020, 73021>>,
      <<73023, 73025>>, <<73027, 73027>>, <<73030, 73031>>, <<73040, 73049>>, <<73056, 73061>>,
      <<73063, 73064>>, <<73066, 73102>>, <<73104, 73105>>, <<73107, 73110>>, <<73112, 73112>>,
      <<73120, 73129>>, <<73136, 73179>>, <<73184, 73193>>, <<73440, 73462>>, <<73472, 73488>>,
      <<73490, 73530>>, <<73534, 73536>>, <<73552, 73561>>, <<73648, 73648>>, <<73664, 73684>>,
      <<73728, 74649>>, <<74752, 74862>>, <<74880, 75075>>, <<77712, 77808>>, <<77824, 78895>>,
      <<78913, 78918>>, <<78944, 82938>>, <<82944, 83526>>, <<90368, 90414>>, <<90416, 90425>>,
      <<92160, 92728>>, <<92736, 92766>>, <<92768, 92777>>, <<92784, 92862>>, <<92864, 92873>>,
      <<92880, 92909>>, <<92928, 92975>>, <<92992, 92995>>, <<93008, 93017>>, <<93019, 93025>>,
      <<93027, 93047>>, <<93053, 93071>>, <<93504, 93548>>, <<93552, 93561>>, <<93760, 93846>>,
      <<93856, 93880>>, <<93883, 93907>>, <<93952, 94026>>, <<94031, 94087>>, <<94095, 94111>>,
      <<94176, 94177>>, <<94179, 94179>>, <<94192, 94198>>, <<94208, 101589>>, <<101631, 101662>>,
      <<101760, 101874>>, <<110576, 110579>>, <<110581, 110587>>, <<110589, 110590>>, <<110592, 110882>>,
      <<110898, 110898>>, <<110928, 110930>>, <<110933, 110933>>, <<110948, 110951>>, <<110960, 111355>>,
      <<113664, 113770>>, <<113776, 113788>>, <<113792, 113800>>, <<113808, 113817>>, <<113822, 113822>>,
      <<118000, 118009>>, <<119488, 119507>>, <<119520, 119539>>, <<119648, 119672>>, <<119808, 119892>>,
      <<119894, 119964>>, <<119966, 119967>>, <<119970, 119970>>, <<119973, 119974>>, <<119977, 119980>>,
      <<119982, 119993>>, <<119995, 119995>>, <<119997, 120003>>, <<120005, 120069>>, <<120071, 120074>>,
      <<120077, 120084>>, <<120086, 120092>>, <<120094, 120121>>, <<120123, 120126>>, <<120128, 120132>>,
      <<120134, 120134>>, <<120138, 120144>>, <<120146, 120485>>, <<120488, 120512>>, <<120514, 120538>>,
      <<120540, 120570>>, <<120572, 120596>>, <<120598, 120628>>, <<120630, 120654>>, <<120656, 120686>>,
      <<120688, 120712>>, <<120714, 120744>>, <<120746, 120770>>, <<120772, 120779>>, <<120782, 120831>>,
      <<122624, 122654>>, <<122661, 122666>>, <<122880, 122886>>, <<122888, 122904>>, <<122907, 122913>>,
      <<122915, 122916>>, <<122918, 122922>>, <<122928, 122989>>, <<123023, 123023>>, <<123136, 123180>>,
      <<123191, 123197>>, <<123200, 123209>>, <<123214, 123214>>, <<123536, 123565>>, <<123584, 123627>>,
      <<123632, 123641>>, <<124112, 124139>>, <<124144, 124153>>, <<124368, 124397>>, <<124400, 124410>>,
      <<124608, 124638>>, <<124640, 124661>>, <<124670, 124671>>, <<124896, 124902>>, <<124904, 124907>>,
      <<124909, 124910>>, <<124912, 124926>>, <<124928, 125124>>, <<125127, 125135>>, <<125184, 125251>>,
      <<125255, 125255>>, <<125259, 125259>>, <<125264, 125273>>, <<126065, 126123>>, <<126125, 126127>>,
      <<126129, 126132>>, <<126209, 126253>>, <<126255, 126269>>, <<126464, 126467>>, <<126469, 126495>>,
      <<126497, 126498>>, <<126500, 126500>>, <<126503, 126503>>, <<126505, 126514>>, <<126516, 126519>>,
      <<126521, 126521>>, <<126523, 126523>>, <<126530, 126530>>, <<126535, 126535>>, <<126537, 126537>>,
      <<126539, 126539>>, <<126541, 126543>>, <<126545, 126546>>, <<126548, 126548>>, <<126551, 126551>>,
      <<126553, 126553>>, <<126555, 126555>>, <<126557, 126557>>, <<126559, 126559>>, <<126561, 126562>>,
      <<126564, 126564>>, <<126567, 126570>>, <<126572, 126578>>, <<126580, 126583>>, <<126585, 126588>>,
      <<126590, 126590>>, <<126592, 126601>>, <<126603, 126619>>, <<126625, 126627>>, <<126629, 126633>>,
      <<126635, 126651>>, <<127232, 127244>>, <<127280, 127305>>, <<127312, 127337>>, <<127344, 127369>>,
      <<130032, 130041>>, <<131072, 173791>>, <<173824, 178205>>, <<178208, 183981>>, <<183984, 191456>>,
      <<191472, 192093>>, <<194560, 195101>>, <<196608, 201546>>, <<201552, 210041>>
    }

\* char::is_alphanumeric: is_alphabetic() || is_numeric()
is_alphanumeric(c) ==
    IF c < 128 THEN c \in (48..57) \cup (65..90) \cup (97..122)
    ELSE \E r \in AlphanumericRanges : r[1] <= c /\ c <= r[2]

\* Width of the UTF-8 encoding of a char.
Utf8Len(c) == IF c < 128 THEN 1 ELSE IF c < 2048 THEN 2 ELSE IF c < 65536 THEN 3 ELSE 4

RECURSIVE ByteLen(_)
\* str::len(): the length in bytes.
ByteLen(s) == IF s = <<>> THEN 0 ELSE Utf8Len(Head(s)) + ByteLen(Tail(s))

\* Byte offset at which the char with 0-based index k starts.
ByteOffset(s, k) == ByteLen(SubSeq(s, 1, k))

\* str::is_char_boundary(b)
IsCharBoundary(s, b) == \E k \in 0..Len(s) : ByteOffset(s, k) = b

\* Number of chars that end at or before byte offset b (b a char boundary).
CharsBefore(s, b) == CHOOSE k \in 0..Len(s) : ByteOffset(s, k) = b

\* &s[..b] and &s[b..] for a byte offset b that is a char boundary.
SliceTo(s, b) == SubSeq(s, 1, CharsBefore(s, b))
SliceFrom(s, b) == SubSeq(s, CharsBefore(s, b) + 1, Len(s))

(***************************************************************************)
(* str helpers (core::str).                                                *)
(***************************************************************************)
MinOf(S) == CHOOSE x \in S : \A y \in S : x <= y
MaxOf(S) == CHOOSE x \in S : \A y \in S : x >= y

\* Number of leading / trailing whitespace chars.
LeadingWs(s) ==
    LET I == {k \in 1..Len(s) : ~is_whitespace(s[k])}
    IN  IF I = {} THEN Len(s) ELSE MinOf(I) - 1
TrailingWs(s) ==
    LET I == {k \in 1..Len(s) : ~is_whitespace(s[k])}
    IN  IF I = {} THEN Len(s) ELSE Len(s) - MaxOf(I)

trim_start(s) == SubSeq(s, LeadingWs(s) + 1, Len(s))
trim_end(s) == SubSeq(s, 1, Len(s) - TrailingWs(s))
trim(s) == trim_end(trim_start(s))

\* str::starts_with(p), str::contains(p)
starts_with(s, p) == Len(s) >= Len(p) /\ SubSeq(s, 1, Len(p)) = p
contains(s, p) == \E k \in 0..(Len(s) - Len(p)) : SubSeq(s, k + 1, k + Len(p)) = p

\* s.split_whitespace().next(): the first whitespace-delimited token, <<>> for none.
first_token(s) ==
    LET t == trim_start(s)
        I == {k \in 1..Len(t) : is_whitespace(t[k])}
    IN  IF I = {} THEN t ELSE SubSeq(t, 1, MinOf(I) - 1)

RECURSIVE split_whitespace(_)
\* s.split_whitespace(): all tokens.
split_whitespace(s) ==
    LET t == trim_start(s)
        tok == first_token(t)
    IN  IF t = <<>> THEN <<>>
        ELSE <<tok>> \o split_whitespace(SubSeq(t, Len(tok) + 1, Len(t)))

RECURSIVE join(_, _)
\* [String]::join(sep)
join(parts, sep) ==
    IF parts = <<>> THEN <<>>
    ELSE IF Len(parts) = 1 THEN parts[1]
    ELSE parts[1] \o sep \o join(Tail(parts), sep)

RECURSIVE SplitOn(_, _)
\* str::split(c) on one char: the pieces between the occurrences of c.
SplitOn(s, c) ==
    LET I == {k \in 1..Len(s) : s[k] = c}
    IN  IF I = {} THEN <<s>>
        ELSE <<SubSeq(s, 1, MinOf(I) - 1)>> \o SplitOn(SubSeq(s, MinOf(I) + 1, Len(s)), c)

\* str::lines(): split on "\n", a final empty piece dropped, a "\r" directly
\* before a "\n" stripped.
lines(s) ==
    LET raw == SplitOn(s, NEWLINE)
        kept == IF raw[Len(raw)] = <<>> THEN SubSeq(raw, 1, Len(raw) - 1) ELSE raw
        strip(l) == IF l # <<>> /\ l[Len(l)] = CARRIAGE_RETURN
                    THEN SubSeq(l, 1, Len(l) - 1) ELSE l
    IN  [k \in 1..Len(kept) |-> IF k < Len(raw) THEN strip(kept[k]) ELSE kept[k]]

\* plain.split("\n\n").next().unwrap_or(""): the text before the first "\n\n".
first_paragraph(s) ==
    LET I == {k \in 1..(Len(s) - 1) : s[k] = NEWLINE /\ s[k + 1] = NEWLINE}
    IN  IF I = {} THEN s ELSE SubSeq(s, 1, MinOf(I) - 1)

(***************************************************************************)
(* BlockType and ListMarker (markdown.rs 3-18).                            *)
(***************************************************************************)
ListMarker == {"Number", "Letter", "Bullet", "None"}
Header == [kind |-> "Header"]
CodeBlockStart == [kind |-> "CodeBlockStart"]
CodeBlockEnd == [kind |-> "CodeBlockEnd"]
Normal == [kind |-> "Normal"]
ListItem(d, m) == [kind |-> "ListItem", depth |-> d, marker |-> m]
IsListItem(t) == t.kind = "ListItem"

(***************************************************************************)
(* Boundary locator.                                                       *)
(***************************************************************************)
normalize_for_comparison(text) ==
    LET keep(c) == is_alphanumeric(c) \/ is_whitespace(c)
    IN  join(split_whitespace(SelectSeq(text, keep)), <<SPACE>>)

\* Mutant of IsTrailerLine: a "##" line is a trailer also when it holds "Summary".
IsTrailerLine_ignores_summary(line) ==
    \/ contains(line, RELATED_POSTS)
    \/ contains(line, BLOG_COMMENTS)
    \/ contains(line, CONTENTS)
    \/ starts_with(line, DOUBLE_HASH)

\* The trailer test of the backward scan (lines 46-49).
IsTrailerLine(line) ==
    \/ contains(line, RELATED_POSTS)
    \/ contains(line, BLOG_COMMENTS)
    \/ contains(line, CONTENTS)
    \/ (starts_with(line, DOUBLE_HASH) /\ ~contains(line, SUMMARY))

\* Mutant of find_content_boundaries: the backward scan does not stop at
\* start_idx.
find_content_boundaries_scans_whole(markdown, plain) ==
    LET first_plain_para == trim(first_paragraph(plain))
        markdown_lines == lines(markdown)
        n == Len(markdown_lines)
        needle == normalize_for_comparison(first_plain_para)
        \* 1-based index k of a window is the 0-based index k - 1 of the source
        hits == {k \in 1..(n - WINDOW + 1) :
                    contains(normalize_for_comparison(
                                 join(SubSeq(markdown_lines, k, k + WINDOW - 1), <<SPACE>>)),
                             needle)}
        start_idx == IF hits = {} THEN 0 ELSE MinOf(hits) - 1
        \* 0-based indices of trailer lines
        ends == {i \in 0..(n - 1) : IsTrailerLine(markdown_lines[i + 1])}
        end_idx == IF ends = {} THEN n ELSE MaxOf(ends)
    IN  <<start_idx, end_idx>>

\* Mutant of find_content_boundaries: the last matching window is taken,
\* not the first.
find_content_boundaries_last_window(markdown, plain) ==
    LET first_plain_para == trim(first_paragraph(plain))
        markdown_lines == lines(markdown)
        n == Len(markdown_lines)
        needle == normalize_for_comparison(first_plain_para)
        \* 1-based index k of a window is the 0-based index k - 1 of the source
        hits == {k \in 1..(n - WINDOW + 1) :
                    contains(normalize_for_comparison(
                                 join(SubSeq(markdown_lines, k, k + WINDOW - 1), <<SPACE>>)),
                             needle)}
        start_idx == IF hits = {} THEN 0 ELSE MaxOf(hits) - 1
        \* 0-based indices i > start_idx of trailer lines
        ends == {i \in (start_idx + 1)..(n - 1) : IsTrailerLine(markdown_lines[i + 1])}
        end_idx == IF ends = {} THEN n ELSE MaxOf(ends)
    IN  <<start_idx, end_idx>>

\* Mutant of find_content_boundaries: the scan for a trailer line stops at
\* the first one after start_idx, not the last.
find_content_boundaries_first_trailer(markdown, plain) ==
    LET first_plain_para == trim(first_paragraph(plain))
        markdown_lines == lines(markdown)
        n == Len(markdown_lines)
        needle == normalize_for_comparison(first_plain_para)
        \* 1-based index k of a window is the 0-based index k - 1 of the source
        hits == {k \in 1..(n - WINDOW + 1) :
                    contains(normalize_for_comparison(
                                 join(SubSeq(markdown_lines, k, k + WINDOW - 1), <<SPACE>>)),
                             needle)}
        start_idx == IF hits = {} THEN 0 ELSE MinOf(hits) - 1
        \* 0-based indices i > start_idx of trailer lines
        ends == {i \in (start_idx + 1)..(n - 1) : IsTrailerLine(markdown_lines[i + 1])}
        end_idx == IF ends = {} THEN n ELSE MinOf(ends)
    IN  <<start_idx, end_idx>>

find_content_boundaries(markdown, plain) ==
    LET first_plain_para == trim(first_paragraph(plain))
        markdown_lines == lines(markdown)
        n == Len(markdown_lines)
        needle == normalize_for_comparison(first_plain_para)
        \* 1-based index k of a window is the 0-based index k - 1 of the source
        hits == {k \in 1..(n - WINDOW + 1) :
                    contains(normalize_for_comparison(
                                 join(SubSeq(markdown_lines, k, k + WINDOW - 1), <<SPACE>>)),
                             needle)}
        start_idx == IF hits = {} THEN 0 ELSE MinOf(hits) - 1
        \* 0-based indices i > start_idx of trailer lines
        ends == {i \in (start_idx + 1)..(n - 1) : IsTrailerLine(markdown_lines[i + 1])}
        end_idx == IF ends = {} THEN n ELSE MaxOf(ends)
    IN  <<start_idx, end_idx>>

(***************************************************************************)
(* Line classifier.                                                        *)
(***************************************************************************)
\* Mutant of get_list_marker: a lettered marker needs a dot after the letter.
get_list_marker_letter_needs_dot(line) ==
    LET tok == first_token(trim_start(line))
    IN  IF tok = <<>> THEN "None"
        ELSE IF is_ascii_digit(tok[1]) THEN "Number"
        ELSE IF is_ascii_lowercase(tok[1]) /\ Len(tok) = 2 /\ tok[2] = DOT THEN "Letter"
        ELSE IF tok[1] \in {STAR, DASH} THEN "Bullet"
        ELSE "None"

get_list_marker(line) ==
    LET tok == first_token(trim_start(line))
    IN  IF tok = <<>> THEN "None"
        ELSE IF is_ascii_digit(tok[1]) THEN "Number"
        ELSE IF is_ascii_lowercase(tok[1]) THEN "Letter"
        ELSE IF tok[1] \in {STAR, DASH} THEN "Bullet"
        ELSE "None"

\* Mutant of IsDepthTerminator: the backtick does not stop the scan.
IsDepthTerminator_no_backtick(c) == c \in {LBRACKET, LT, QUOTE, DQUOTE, LPAREN}

\* The chars at which the scan of the first token stops (line 95).
IsDepthTerminator(c) == c \in {BACKTICK, LBRACKET, LT, QUOTE, DQUOTE, LPAREN}

RECURSIVE DepthScan(_, _, _, _)
\* The loop of lines 94-104 from char k on: <<dots, found_number>> at its end.
DepthScan(tok, k, dots, found_number) ==
    IF k > Len(tok) \/ IsDepthTerminator(tok[k]) THEN <<dots, found_number>>
    ELSE IF is_ascii_digit(tok[k]) THEN DepthScan(tok, k + 1, dots, TRUE)
    ELSE IF tok[k] = DOT /\ found_number THEN DepthScan(tok, k + 1, dots + 1, FALSE)
    ELSE DepthScan(tok, k + 1, dots, found_number)

\* Mutant of get_list_depth: the trailing dot is counted as a level.
get_list_depth_counts_trailing_dot(line) ==
    LET spaces == LeadingWs(line)
        tok == first_token(trim_start(line))
        r == DepthScan(tok, 1, 0, FALSE)
    IN  IF tok = <<>> THEN 0
        ELSE IF r[1] > 0 THEN r[1]
        ELSE spaces \div INDENT_WIDTH

get_list_depth(line) ==
    LET spaces == LeadingWs(line)
        tok == first_token(trim_start(line))
        r == DepthScan(tok, 1, 0, FALSE)
        dots == r[1]
        found_number == r[2]
    IN  IF tok = <<>> THEN 0
        ELSE IF dots > 0 THEN (IF found_number THEN dots ELSE dots - 1)
        ELSE spaces \div INDENT_WIDTH

get_block_type(line, is_in_code_block, in_list) ==
    LET trimmed == trim_start(line)
        marker == get_list_marker(trimmed)
    IN  IF trimmed = <<>> THEN Normal
        ELSE IF trimmed[1] = HASH THEN Header
        ELSE IF marker # "None" THEN ListItem(get_list_depth(line), marker)
        ELSE IF starts_with(trimmed, FENCE)
             THEN (IF is_in_code_block THEN CodeBlockEnd ELSE CodeBlockStart)
        ELSE Normal

\* "    ".repeat(depth)
\* Mutant of Indent: three spaces for each level.
Indent_three_spaces(depth) == [k \in 1..(3 * depth) |-> SPACE]

Indent(depth) == [k \in 1..(INDENT_WIDTH * depth) |-> SPACE]

indent_line(line, depth) == Indent(depth) \o trim_start(line)

normalize_list_item(line, depth) ==
    LET trimmed == trim_start(line)
    IN  IF depth > 0 THEN indent_line(trimmed, depth) ELSE trimmed

\* Mutant of is_list_continuation: a '#' line of the same depth continues too.
is_list_continuation_ignores_hash(line, prev_block_type) ==
    IF IsListItem(prev_block_type)
    THEN LET line_depth == get_list_depth(line)
             trimmed == trim_start(line)
         IN  IF get_list_marker(trimmed) # "None" THEN FALSE
             ELSE line_depth >= prev_block_type.depth
    ELSE FALSE

is_list_continuation(line, prev_block_type) ==
    IF IsListItem(prev_block_type)
    THEN LET line_depth == get_list_depth(line)
             trimmed == trim_start(line)
         IN  IF get_list_marker(trimmed) # "None" THEN FALSE
             ELSE \/ line_depth > prev_block_type.depth
                  \/ (line_depth = prev_block_type.depth /\ ~starts_with(trimmed, <<HASH>>))
    ELSE FALSE

\* Mutant of needs_spacing_before: spacing before every list item.
needs_spacing_before_every_item(block_type, prev_block_type) ==
    CASE block_type.kind = "Header" -> TRUE
      [] block_type.kind = "ListItem" -> TRUE
      [] block_type.kind = "CodeBlockStart" -> TRUE
      [] OTHER -> FALSE

needs_spacing_before(block_type, prev_block_type) ==
    CASE block_type.kind = "Header" -> TRUE
      [] block_type.kind = "ListItem" -> ~IsListItem(prev_block_type)
      [] block_type.kind = "CodeBlockStart" -> TRUE
      [] OTHER -> FALSE

\* Mutant of needs_spacing_after: no spacing after a header.
needs_spacing_after_header_joins(block_type, next_block_type) ==
    CASE block_type.kind = "Header" -> FALSE
      [] block_type.kind = "ListItem" -> ~IsListItem(next_block_type)
      [] block_type.kind = "CodeBlockEnd" -> TRUE
      [] block_type.kind = "Normal" -> next_block_type.kind \in {"Header", "ListItem", "Normal"}
      [] OTHER -> FALSE

\* Mutant of needs_spacing_after: no spacing between two Normal lines.
needs_spacing_after_normal_runs(block_type, next_block_type) ==
    CASE block_type.kind = "Header" -> TRUE
      [] block_type.kind = "ListItem" -> ~IsListItem(next_block_type)
      [] block_type.kind = "CodeBlockEnd" -> TRUE
      [] block_type.kind = "Normal" -> next_block_type.kind \in {"Header", "ListItem"}
      [] OTHER -> FALSE

needs_spacing_after(block_type, next_block_type) ==
    CASE block_type.kind = "Header" -> TRUE
      [] block_type.kind = "ListItem" -> ~IsListItem(next_block_type)
      [] block_type.kind = "CodeBlockEnd" -> TRUE
      [] block_type.kind = "Normal" -> next_block_type.kind \in {"Header", "ListItem", "Normal"}
      [] OTHER -> FALSE

(***************************************************************************)
(* Header splitter.                                                        *)
(***************************************************************************)
RECURSIVE LinkScan(_, _, _, _)
\* The loop of lines 224-245 from the char with 1-based index k on:
\* <<in_brackets, in_parens>> at its end.
LinkScan(chars, k, in_brackets, in_parens) ==
    IF k > Len(chars) THEN <<in_brackets, in_parens>>
    ELSE IF chars[k] = LBRACKET THEN LinkScan(chars, k + 1, in_brackets + 1, in_parens)
    ELSE IF chars[k] = RBRACKET
         THEN LinkScan(chars, k + 1, in_brackets - 1,
                       IF in_brackets - 1 = 0 /\ k + 1 <= Len(chars) /\ chars[k + 1] = LPAREN
                       THEN in_parens + 1 ELSE in_parens)
    ELSE IF chars[k] = LPAREN
         THEN LinkScan(chars, k + 1, in_brackets,
                       IF in_brackets = 0 THEN in_parens + 1 ELSE in_parens)
    ELSE IF chars[k] = RPAREN
         THEN LinkScan(chars, k + 1, in_brackets,
                       IF in_brackets = 0 THEN in_parens - 1 ELSE in_parens)
    ELSE LinkScan(chars, k + 1, in_brackets, in_parens)

\* Number of occurrences of char c in s.
CountChar(s, c) == Cardinality({k \in 1..Len(s) : s[k] = c})

\* &text[..pos] (line 205) aborts unless byte offset pos is a char boundary.
SlicePanics(text, pos) == ~IsCharBoundary(text, pos)

\* Defined for a pos that is a char boundary of text.
is_in_code_or_link(text, pos) ==
    LET before == SliceTo(text, pos)
        backticks == CountChar(before, BACKTICK)
        html_link_depth == CountChar(before, LT) - CountChar(before, GT)
        r == LinkScan(before, 1, 0, 0)
    IN  IF backticks % 2 # 0 THEN TRUE
        ELSE IF html_link_depth > 0 THEN TRUE
        ELSE r[1] > 0 \/ r[2] > 0

\* line[pos..].chars().take_while(|c| c == '#') for a char boundary pos.
HashRun(line, pos) ==
    LET tail == SliceFrom(line, pos)
        I == {k \in 1..Len(tail) : tail[k] # HASH}
    IN  IF I = {} THEN tail ELSE SubSeq(tail, 1, MinOf(I) - 1)

\* The test of lines 258-263; after_hash is used both as a byte offset
\* (against line.len()) and as a char index (chars().nth).
IsSplitPoint(line, after_hash) ==
    /\ after_hash < ByteLen(line)
    /\ \/ (after_hash < Len(line) /\ is_whitespace(line[after_hash + 1]))
       \/ after_hash = ByteLen(line)

\* Result of the header splitter: the Vec it returns, or the abort.
SplitOk(v) == [panic |-> FALSE, result |-> v]
SplitPanic == [panic |-> TRUE, result |-> <<>>]

\* Lines 275-278: the final push of a non-blank `current`.
PushCurrent(result, current) ==
    IF trim(current) # <<>> THEN Append(result, trim(current)) ELSE result

RECURSIVE SplitScan(_, _, _)
\* The loop of lines 254-274 from the char with 0-based index pos on.
SplitScan(line, pos, current) ==
    IF pos >= Len(line) THEN SplitOk(PushCurrent(<<>>, current))
    ELSE IF line[pos + 1] # HASH THEN SplitScan(line, pos + 1, Append(current, line[pos + 1]))
    ELSE IF SlicePanics(line, pos) THEN SplitPanic
    ELSE IF is_in_code_or_link(line, pos)
         THEN SplitScan(line, pos + 1, Append(current, line[pos + 1]))
    ELSE IF IsSplitPoint(line, pos + ByteLen(HashRun(line, pos)))
         THEN SplitOk(IF trim(current) # <<>>
                      THEN PushCurrent(<<trim(current)>>, SliceFrom(line, pos))
                      ELSE PushCurrent(<<>>, current \o SliceFrom(line, pos)))
    ELSE SplitScan(line, pos + 1, Append(current, line[pos + 1]))

split_header_content(line) == SplitScan(line, 0, <<>>)

(***************************************************************************)
(* Reflow engine: normalize_markdown as a state machine.                   *)
(*                                                                         *)
(* pc = "start"    before find_content_boundaries                          *)
(*      "line"     at the head of the loop over content_lines (index i)    *)
(*      "sub"      at the head of the loop over split_lines (index j)      *)
(*      "done"     the function has returned `output`                      *)
(*      "panicked" the call aborted                                        *)
(* i and j are the 0-based indices of the source.  trace is a history      *)
(* variable: one record per processed sub-line.                            *)
(***************************************************************************)
VARIABLES markdown, plain, pc, start_idx, end_idx, i, j, split_lines, result,
          current_block, in_code_block, prev_block_type, in_list, output, trace

vars == <<markdown, plain, pc, start_idx, end_idx, i, j, split_lines, result,
          current_block, in_code_block, prev_block_type, in_list, output, trace>>

\* &markdown_lines[start_idx..end_idx]
content_lines == SubSeq(lines(markdown), start_idx + 1, end_idx)

\* Mutant of Flush: every flush joins the lines of the block with "\n*".
Flush_joins_with_star(cond, res, blk, sep) ==
    IF cond /\ blk # <<>> THEN <<Append(res, join(blk, SEP_NL_STAR)), <<>>>> ELSE <<res, blk>>

\* if !block.is_empty() { result.push(block.join(sep)); block.clear() },
\* done when `cond` holds: <<result, block>> afterwards.
Flush(cond, res, blk, sep) ==
    IF cond /\ blk # <<>> THEN <<Append(res, join(blk, sep)), <<>>>> ELSE <<res, blk>>

\* prev_depth.saturating_sub(1)
SaturatingDec(n) == IF n > 0 THEN n - 1 ELSE 0

\* Mutant of actual_depth: an item after an item of the same kind, or with a
\* bullet on either side, takes the depth of the item before it.
actual_depth_same_kind_takes_previous(current_type, prev_type) ==
    IF IsListItem(prev_type)
    THEN IF prev_type.marker = "Number" /\ current_type.marker = "Letter"
              THEN prev_type.depth + 1
         ELSE IF prev_type.marker = "Letter" /\ current_type.marker = "Number"
              THEN SaturatingDec(prev_type.depth)
         ELSE prev_type.depth
    ELSE 0

\* Mutant of actual_depth: the first item of a list takes its own depth.
actual_depth_first_item_own_depth(current_type, prev_type) ==
    IF IsListItem(prev_type)
    THEN IF prev_type.marker = "Number" /\ current_type.marker = "Letter"
              THEN prev_type.depth + 1
         ELSE IF prev_type.marker = "Letter" /\ current_type.marker = "Number"
              THEN SaturatingDec(prev_type.depth)
         ELSE current_type.depth
    ELSE current_type.depth

\* Mutant of actual_depth: a change of marker kind does not override the
\* depth of the item.
actual_depth_no_override(current_type, prev_type) ==
    IF IsListItem(prev_type) THEN current_type.depth ELSE 0

\* Lines 355-368: the depth a list item is indented at.
actual_depth(current_type, prev_type) ==
    IF IsListItem(prev_type)
    THEN IF prev_type.marker = "Number" /\ current_type.marker = "Letter"
              THEN prev_type.depth + 1
         ELSE IF prev_type.marker = "Letter" /\ current_type.marker = "Number"
              THEN SaturatingDec(prev_type.depth)
         ELSE current_type.depth
    ELSE 0

\* Lines 353-383.
normalized_line(split_line, current_type, prev_type) ==
    IF IsListItem(current_type)
    THEN normalize_list_item(split_line, actual_depth(current_type, prev_type))
    ELSE IF current_type = Normal /\ IsListItem(prev_type)
              /\ is_list_continuation(split_line, prev_type)
         THEN indent_line(split_line, prev_type.depth + 1)
    ELSE split_line

\* Lines 396-404: the final flush, the filter of empty blocks and the join.
final_join(res, blk) ==
    LET all == Flush(TRUE, res, blk, SEP_NL)[1]
        nonempty(p) == p # <<>>
    IN  join(SelectSeq(all, nonempty), SEP_PARA)

(***************************************************************************)
(* Inputs.  The function takes any two strings; the model draws markdown   *)
(* from four bounded families and plain from {"", markdown}.               *)
(***************************************************************************)
\* Lines per document of the general family.
MaxLines == 3
\* Items per document of the list family.
MaxItems == 4
\* Chars before the '#' in the header-line family.
MaxPrefix == 2
\* Chars of a numbering token in the token family.
MaxTok == 5
\* Lines per document of the boundary family.
MaxBoundaryLines == 5
\* Lines per document of the trailer family.
MaxTrailerLines == 2

\* All sequences over S of a length in lo..hi.
Seqs(S, lo, hi) == UNION {[1..n -> S] : n \in lo..hi}

\* General family: prose, list items, a header, a blank line, a fence and
\* a header glued to prose.
LinePool ==
    { <<84, 120>>,                          \* "Tx"
      <<49, 46, 32, 120>>,                  \* "1. x"
      <<97, 46, 32, 120>>,                  \* "a. x"
      <<35, 35, 32, 72>>,                   \* "## H"
      <<>>,                                 \* ""
      FENCE,                                \* three backticks
      <<84, 120, 46, 35, 35, 32, 72>> }     \* "Tx.## H"

\* List family: numeric, lettered and composite items, and an indented
\* lettered item.
ListPool ==
    { <<49, 46, 32, 120>>,                  \* "1. x"
      <<97, 46, 32, 120>>,                  \* "a. x"
      <<50, 46, 49, 32, 120>>,              \* "2.1 x"
      <<50, 46, 50, 46, 32, 120>>,          \* "2.2. x"
      <<32, 32, 32, 32, 97, 46, 32, 120>> } \* "    a. x"

\* Header-line family: a prefix, then a '#' followed by whitespace.
PrefixChars == {120, 233, BACKTICK, LT, GT, LBRACKET, RBRACKET}   \* x, e-acute, ...
Suffixes ==
    { <<35, 32, 72>>,                       \* "# H"
      <<35, 32, 72, 62>>,                   \* "# H>"
      <<35, 32, 72, 93>>,                   \* "# H]"
      <<35, 32, 72, 96>>,                   \* "# H" and a backtick
      <<35, 35>>,                           \* "##", a run that ends the line
      <<35, 32, 72, 32, 35, 32, 72>>,       \* "# H # H", two header markers
      <<35, 120, 32, 35, 32, 72>> }         \* "#x # H", a '#' that is no marker first

\* Token family: a first token over digits, dots and backticks.
TokChars == {49, DOT, BACKTICK}

\* Bullet family: bullets with and without indentation, a composite and a
\* lettered item, prose that starts with a lowercase letter, prose that
\* starts with a capital, a blank line.
BulletPool ==
    { <<42, 32, 120>>,                      \* "* x"
      <<32, 32, 32, 32, 42, 32, 120>>,      \* "    * x"
      <<45, 32, 120>>,                      \* "- x"
      <<50, 46, 49, 32, 120>>,              \* "2.1 x"
      <<97, 46, 32, 120>>,                  \* "a. x"
      <<120, 121, 32, 122>>,                \* "xy z"
      <<84, 120>>,                          \* "Tx"
      <<32, 32, 32>> }                      \* "   "

\* Boundary family: page chrome, content with punctuation, a trailer line;
\* the reference is chosen apart from the markdown.
BoundaryPool ==
    { <<78, 118>>,                          \* "Nv"
      <<84, 44, 120>>,                      \* "T,x"
      <<35, 35, 32, 72>> }                  \* "## H"
PlainPool ==
    { <<84, 120>>,                          \* "Tx"
      <<78, 118, 32, 32, 84, 120, 33, 10, 10, 78, 118>>,   \* "Nv  Tx!\n\nNv"
      <<90, 122>>,                          \* "Zz"
      <<84, 12288, 120>> }                  \* "T", U+3000, "x"

\* Trailer family: prose, a summary header, and the trailer markers.
TrailerPool ==
    { <<84, 120>>,                          \* "Tx"
      DOUBLE_HASH \o <<SPACE>> \o SUMMARY,    \* "## Summary"
      <<120, SPACE>> \o CONTENTS,            \* "x Contents"
      BLOG_COMMENTS,                        \* "Blog Comments"
      <<97, SPACE>> \o RELATED_POSTS,        \* "a ## Related posts"
      <<35, 35, 32, 72>> }                  \* "## H"

\* Continuation family: list items of depth 0 and 1, and lines without a
\* list marker whose first token has depth 1.
ContinuationPool ==
    { <<49, 46, 32, 120>>,                  \* "1. x"
      <<50, 46, 49, 32, 120>>,              \* "2.1 x"
      <<86, 49, 46, 50, 32, 120>>,          \* "V1.2 x"
      <<35, 49, 46, 50, 32, 120>> }         \* "#1.2 x"

DocInputs == {join(d, SEP_NL) : d \in Seqs(LinePool, 0, MaxLines)}
ListInputs == {join(d, SEP_NL) : d \in Seqs(ListPool, 1, MaxItems)}
HeaderLineInputs == {pre \o suf : pre \in Seqs(PrefixChars, 0, MaxPrefix), suf \in Suffixes}
TokenInputs == {tok \o <<32, 120>> : tok \in Seqs(TokChars, 1, MaxTok)}
BulletInputs == {join(d, SEP_NL) : d \in Seqs(BulletPool, 1, MaxLines)}
TrailerInputs == {join(d, SEP_NL) : d \in Seqs(TrailerPool, 1, MaxTrailerLines)}
ContinuationInputs == {join(d, SEP_NL) : d \in Seqs(ContinuationPool, 1, MaxLines)}
BoundaryInputs == {join(d, SEP_NL) : d \in Seqs(BoundaryPool, 0, MaxBoundaryLines)}

Init ==
    /\ markdown \in DocInputs \cup ListInputs \cup HeaderLineInputs \cup TokenInputs
                    \cup BulletInputs \cup TrailerInputs \cup ContinuationInputs
                    \cup BoundaryInputs
    /\ plain \in (IF markdown \in DocInputs \cup TrailerInputs THEN {<<>>, markdown} ELSE {markdown})
                 \cup (IF markdown \in BoundaryInputs THEN PlainPool ELSE {})
    /\ pc = "start"
    /\ start_idx = 0
    /\ end_idx = 0
    /\ i = 0
    /\ j = 0
    /\ split_lines = <<>>
    /\ result = <<>>
    /\ current_block = <<>>
    /\ in_code_block = FALSE
    /\ prev_block_type = Normal
    /\ in_list = FALSE
    /\ output = <<>>
    /\ trace = <<>>

\* Lines 282-289.
Locate ==
    /\ pc = "start"
    /\ LET b == find_content_boundaries(markdown, plain)
       IN  /\ start_idx' = b[1]
           /\ end_idx' = b[2]
           \* a slice with start > end aborts
           /\ pc' = IF b[1] > b[2] THEN "panicked" ELSE "line"
    /\ UNCHANGED <<markdown, plain, i, j, split_lines, result, current_block,
                   in_code_block, prev_block_type, in_list, output, trace>>

\* Lines 291-294: the head of the outer loop; a line that splits into no
\* sub-line (a blank line) is passed over.
SplitLine ==
    /\ pc = "line"
    /\ i < Len(content_lines)
    /\ LET r == split_header_content(trim_end(content_lines[i + 1]))
       IN  IF r.panic
           THEN pc' = "panicked" /\ UNCHANGED <<i, j, split_lines>>
           ELSE IF r.result = <<>>
           THEN pc' = "line" /\ i' = i + 1 /\ UNCHANGED <<j, split_lines>>
           ELSE pc' = "sub" /\ split_lines' = r.result /\ j' = 0 /\ UNCHANGED i
    /\ UNCHANGED <<markdown, plain, start_idx, end_idx, result, current_block,
                   in_code_block, prev_block_type, in_list, output, trace>>

(***************************************************************************)
(* Lines 295-392: the body of the inner loop, as a pipeline over a record  *)
(* of the loop's locals.  Each stage is one statement group of the body.   *)
(***************************************************************************)
\* The locals on entry to the body for sub-line j of line i.
body_entry ==
    [split_line |-> split_lines[j + 1],
     last_sub |-> (j = Len(split_lines) - 1),
     split_tail |-> (j > 0),
     has_next |-> (i < Len(content_lines) - 1),
     next_line |-> IF i < Len(content_lines) - 1 THEN content_lines[i + 2] ELSE <<>>,
     result |-> result, current_block |-> current_block,
     in_code_block |-> in_code_block, prev_block_type |-> prev_block_type,
     in_list |-> in_list,
     is_continuation |-> FALSE, current_type |-> Normal, next_type |-> Normal,
     normalized_line |-> <<>>, block |-> 0]

\* Lines 298-300: a fence line toggles in_code_block before classification.
toggle_fence(s) ==
    [s EXCEPT !.in_code_block =
        IF starts_with(s.split_line, FENCE) THEN ~s.in_code_block ELSE s.in_code_block]

\* Mutant of classify: with lines pending in the block, a line that would be
\* Normal is taken for a header.
classify_looks_at_block(s) ==
    [s EXCEPT
       !.is_continuation =
           s.split_line # <<>> /\ is_list_continuation(s.split_line, s.prev_block_type),
       !.current_type =
           IF s.split_line # <<>> /\ is_list_continuation(s.split_line, s.prev_block_type)
           THEN s.prev_block_type
           ELSE IF s.current_block # <<>>
                   /\ get_block_type(s.split_line, s.in_code_block, s.in_list) = Normal
           THEN Header
           ELSE get_block_type(s.split_line, s.in_code_block, s.in_list)]

\* Lines 302-308.
classify(s) ==
    [s EXCEPT
       !.is_continuation =
           s.split_line # <<>> /\ is_list_continuation(s.split_line, s.prev_block_type),
       !.current_type =
           IF s.split_line # <<>> /\ is_list_continuation(s.split_line, s.prev_block_type)
           THEN s.prev_block_type
           ELSE get_block_type(s.split_line, s.in_code_block, s.in_list)]

\* Lines 311-320 (entering a list) and 321-332 (leaving it).
EntersList(s) == IsListItem(s.current_type) /\ ~s.in_list
LeavesList(s) == ~IsListItem(s.current_type) /\ ~s.is_continuation /\ s.in_list

\* Mutant of update_in_list: the flag is never reset on leaving a list.
update_in_list_never_leaves(s) ==
    [s EXCEPT
       !.in_list = IF EntersList(s) THEN TRUE ELSE s.in_list,
       !.result = Flush(EntersList(s) \/ LeavesList(s), s.result, s.current_block, SEP_NL)[1],
       !.current_block =
           Flush(EntersList(s) \/ LeavesList(s), s.result, s.current_block, SEP_NL)[2]]

update_in_list(s) ==
    [s EXCEPT
       !.in_list = IF EntersList(s) THEN TRUE ELSE IF LeavesList(s) THEN FALSE ELSE s.in_list,
       !.result = Flush(EntersList(s) \/ LeavesList(s), s.result, s.current_block, SEP_NL)[1],
       !.current_block =
           Flush(EntersList(s) \/ LeavesList(s), s.result, s.current_block, SEP_NL)[2]]

\* Lines 335-340: a header split off a line starts its own block.
flush_before_split_header(s) ==
    [s EXCEPT
       !.result = Flush(s.split_tail /\ s.current_type = Header,
                        s.result, s.current_block, SEP_NL)[1],
       !.current_block = Flush(s.split_tail /\ s.current_type = Header,
                               s.result, s.current_block, SEP_NL)[2]]

\* Lines 342-346: the type of the next raw line.
peek_next_type(s) ==
    [s EXCEPT !.next_type =
        IF s.has_next THEN get_block_type(s.next_line, s.in_code_block, s.in_list)
        ELSE Normal]

\* Lines 348-351: pre-spacing.
spacing_before(s) ==
    [s EXCEPT
       !.result = Flush(needs_spacing_before(s.current_type, s.prev_block_type),
                        s.result, s.current_block, SEP_NL_STAR)[1],
       !.current_block = Flush(needs_spacing_before(s.current_type, s.prev_block_type),
                               s.result, s.current_block, SEP_NL_STAR)[2]]

\* Lines 353-384: the line is normalized and pushed; block is the 1-based
\* index in result of the block it will be flushed as.
push_line(s) ==
    [s EXCEPT
       !.normalized_line = normalized_line(s.split_line, s.current_type, s.prev_block_type),
       !.current_block =
           Append(s.current_block,
                  normalized_line(s.split_line, s.current_type, s.prev_block_type)),
       !.block = Len(s.result) + 1]

\* Lines 385-391: post-spacing.
FlushesAfter(s) ==
    /\ s.last_sub
    /\ needs_spacing_after(s.current_type, s.next_type)
    /\ ~(IsListItem(s.next_type) /\ s.in_list)

spacing_after(s) ==
    [s EXCEPT
       !.result = Flush(FlushesAfter(s), s.result, s.current_block, SEP_NL)[1],
       !.current_block = Flush(FlushesAfter(s), s.result, s.current_block, SEP_NL)[2]]

\* The locals at the end of the body.
body_exit ==
    spacing_after(push_line(spacing_before(peek_next_type(
        flush_before_split_header(update_in_list(classify(toggle_fence(body_entry))))))))

\* The history record of a processed sub-line.
trace_entry(s) ==
    [line |-> i, sub |-> j, text |-> s.split_line, type |-> s.current_type,
     continuation |-> s.is_continuation, in_code_block |-> s.in_code_block,
     in_list |-> s.in_list, next_type |-> s.next_type, emitted |-> s.normalized_line,
     block |-> s.block, flushed |-> (s.current_block = <<>>)]

\* Assignment of the body's locals back to the state: prev_block_type is
\* the type just assigned (line 392).
commit(s) ==
    /\ in_code_block' = s.in_code_block
    /\ in_list' = s.in_list
    /\ result' = s.result
    /\ current_block' = s.current_block
    /\ prev_block_type' = s.current_type
    /\ trace' = Append(trace, trace_entry(s))

\* One pass of the inner loop for sub-line j of line i (lines 294-393).
ProcessSubLine ==
    /\ pc = "sub"
    /\ j < Len(split_lines)
    /\ split_lines[j + 1] # <<>>
    /\ commit(body_exit)
    /\ j' = j + 1
    /\ IF j + 1 < Len(split_lines)
       THEN UNCHANGED <<i, pc>>
       ELSE i' = i + 1 /\ pc' = "line"
    /\ UNCHANGED <<markdown, plain, start_idx, end_idx, split_lines, output>>

\* Lines 396-404: the loop is over; the function returns.
Finish ==
    /\ pc = "line"
    /\ i = Len(content_lines)
    /\ output' = final_join(result, current_block)
    /\ result' = Flush(TRUE, result, current_block, SEP_NL)[1]
    /\ pc' = "done"
    /\ UNCHANGED <<markdown, plain, start_idx, end_idx, i, j, split_lines, current_block,
                   in_code_block, prev_block_type, in_list, trace>>

Next == Locate \/ SplitLine \/ ProcessSubLine \/ Finish

Spec == Init /\ [][Next]_vars

(***************************************************************************)
(* Reading the returned text back.                                         *)
(***************************************************************************)
\* Number of sub-lines processed so far.
Processed == Len(trace)

\* The 1-based line of `output` that holds processed sub-line k: blocks are
\* joined by one blank line, so it is k plus the number of blocks before its own.
OutPos(k) == k + trace[k].block - 1

\* The line of `output` for processed sub-line k (<<>> if the text is shorter).
OutLine(k) == IF OutPos(k) <= Len(lines(output)) THEN lines(output)[OutPos(k)] ELSE <<>>

\* Width of the indentation of a line of text.
IndentOf(line) == LeadingWs(line)

(***************************************************************************)
(* C1.  normalize_markdown returns for every pair of inputs: no call       *)
(* aborts on an index out of range or on a slice index that is not a char  *)
(* boundary, also when multi-byte chars precede a '#'.                     *)
(***************************************************************************)
C1_NeverAborts == pc # "panicked"

(***************************************************************************)
(* Dotted numbering, as the claims word it: digit groups separated by      *)
(* single dots, with or without a trailing dot, read up to the first of    *)
(* the chars ` [ < ' " ( of the token.                                     *)
(***************************************************************************)
\* The part of a token before its first terminator char.
NumberingHead(tok) ==
    LET I == {k \in 1..Len(tok) : tok[k] \in {BACKTICK, LBRACKET, LT, QUOTE, DQUOTE, LPAREN}}
    IN  IF I = {} THEN tok ELSE SubSeq(tok, 1, MinOf(I) - 1)

IsDottedNumbering(tok) ==
    LET h == NumberingHead(tok)
    IN  /\ h # <<>>
        /\ \A k \in 1..Len(h) : is_ascii_digit(h[k]) \/ h[k] = DOT
        /\ is_ascii_digit(h[1])
        /\ \A k \in 1..(Len(h) - 1) : ~(h[k] = DOT /\ h[k + 1] = DOT)
        /\ \E k \in 1..Len(h) : h[k] = DOT

\* Number of dot-separated digit groups of a dotted numbering token.
DigitGroups(tok) ==
    LET h == NumberingHead(tok)
    IN  Cardinality({k \in 1..Len(h) : is_ascii_digit(h[k]) /\ (k = 1 \/ h[k - 1] = DOT)})

\* Processed sub-line k is a list item that starts with dotted numbering of g groups.
IsNumbered(k, g) ==
    /\ IsDottedNumbering(first_token(trace[k].text))
    /\ DigitGroups(first_token(trace[k].text)) = g

(***************************************************************************)
(* C5.  A numeric item with two-level numbering ("2.1", "2.2.") directly   *)
(* after a numeric list item is emitted indented by exactly 4 spaces, and  *)
(* a single-level numeric item ("3.") after it is emitted unindented.      *)
(***************************************************************************)
C5_CompositeIndent ==
    pc = "done" =>
        \A k \in 2..Processed :
            (/\ IsNumbered(k, 2)
             /\ trace[k - 1].type.kind = "ListItem"
             /\ trace[k - 1].type.marker = "Number")
            => /\ OutLine(k) = Indent(1) \o trace[k].text
               /\ trace[k].text[1] # SPACE
               /\ (k < Processed /\ IsNumbered(k + 1, 1)) => OutLine(k + 1) = trace[k + 1].text

\* "1. x", then "2.1 x" and "2.2. x" at 4 spaces, then "1. x" back at 0.
C5_Witness ==
    /\ pc = "done"
    /\ Processed = 4
    /\ IsNumbered(1, 1) /\ IsNumbered(2, 2) /\ IsNumbered(3, 2) /\ IsNumbered(4, 1)
    /\ trace[2].text # trace[3].text
    /\ IndentOf(OutLine(2)) = 4 /\ IndentOf(OutLine(3)) = 4 /\ IndentOf(OutLine(4)) = 0

(***************************************************************************)
(* C8.  Two consecutively processed lines that are both classified Normal  *)
(* are placed in different blocks: in the returned text exactly one blank  *)
(* line separates them.                                                    *)
(***************************************************************************)
C8_NormalNormalSeparated ==
    pc = "done" =>
        \A k \in 1..(Processed - 1) :
            (trace[k].type = Normal /\ trace[k + 1].type = Normal)
            => /\ OutPos(k + 1) = OutPos(k) + 2
               /\ OutPos(k + 1) <= Len(lines(output))
               /\ lines(output)[OutPos(k)] = trace[k].text
               /\ lines(output)[OutPos(k) + 1] = <<>>
               /\ lines(output)[OutPos(k + 1)] = trace[k + 1].text

\* Two Normal lines that only a single newline separated in the input.
C8_Witness ==
    /\ pc = "done"
    /\ \E k \in 1..(Processed - 1) :
          /\ trace[k].type = Normal /\ trace[k + 1].type = Normal
          /\ trace[k + 1].line = trace[k].line + 1
          /\ lines(output)[OutPos(k) + 1] = <<>>
          /\ lines(output)[OutPos(k) + 2] = trace[k + 1].text

(***************************************************************************)
(* C9.  A line whose first token is dotted numbering is a Number list item *)
(* of depth (digit groups - 1): a trailing dot adds nothing, and what      *)
(* follows the first ` [ < ' " ( of the token does not count.              *)
(***************************************************************************)
C9_DottedDepth ==
    \A k \in 1..Processed :
        IsDottedNumbering(first_token(trace[k].text))
        => trace[k].type = ListItem(DigitGroups(first_token(trace[k].text)) - 1, "Number")

\* Two groups and a trailing dot with a backtick glued to them: depth 1.
C9_Witness ==
    /\ Processed >= 1
    /\ LET tok == first_token(trace[1].text)
       IN  /\ IsDottedNumbering(tok)
           /\ DigitGroups(tok) = 2
           /\ NumberingHead(tok)[Len(NumberingHead(tok))] = DOT
           /\ \E k \in 1..Len(tok) : tok[k] = BACKTICK
           /\ trace[1].type = ListItem(1, "Number")

(***************************************************************************)
(* C4.  Where a numeric item is followed on adjacent lines by a run of     *)
(* lettered items and then a numeric item, every lettered item of the run  *)
(* is emitted 4 spaces deeper than the numeric parent, and the numeric     *)
(* item after the run is emitted back at the parent's indentation.         *)
(***************************************************************************)
\* Processed sub-line k is a list item of marker kind m in its own right.
IsItem(k, m) ==
    /\ trace[k].type.kind = "ListItem"
    /\ trace[k].type.marker = m
    /\ ~trace[k].continuation
    /\ get_list_marker(trace[k].text) = m

\* Processed sub-lines k and k + 1 are whole lines adjacent in the input.
AdjacentLines(k) ==
    /\ trace[k + 1].line = trace[k].line + 1
    /\ trace[k].sub = 0 /\ trace[k + 1].sub = 0
    /\ Len(content_lines[trace[k].line + 1]) = Len(trace[k].text) + IndentOf(content_lines[trace[k].line + 1])

\* p is a numeric parent, p+1..q a run of lettered items, q+1 a numeric item.
LetteredRun(p, q) ==
    /\ IsItem(p, "Number")
    /\ \A m \in (p + 1)..q : IsItem(m, "Letter")
    /\ IsItem(q + 1, "Number")
    /\ \A m \in p..q : AdjacentLines(m)

C4_LetteredRunIndented ==
    pc = "done" =>
        \A p \in 1..Processed : \A q \in (p + 1)..(Processed - 1) :
            LetteredRun(p, q)
            => /\ \A m \in (p + 1)..q : IndentOf(OutLine(m)) = IndentOf(OutLine(p)) + 4
               /\ IndentOf(OutLine(q + 1)) = IndentOf(OutLine(p))

(***************************************************************************)
(* Protection of a '#', as the specification words it: inside inline code  *)
(* (after an odd number of backticks), inside an HTML tag < .. >, inside a *)
(* link label [ .. ] or a link target ]( .. ).  Read char by char, with    *)
(* nesting, a closer without an opener closing nothing.                    *)
(***************************************************************************)
RECURSIVE NestDepth(_, _, _)
\* Nesting depth of `open` .. `close` at the end of s.
NestDepth(s, open, close) ==
    IF s = <<>> THEN 0
    ELSE LET d == NestDepth(SubSeq(s, 1, Len(s) - 1), open, close)
             c == s[Len(s)]
         IN  IF c = open THEN d + 1
             ELSE IF c = close /\ d > 0 THEN d - 1
             ELSE d

\* s ends inside a link target: a "](" with no ")" after it.
InLinkTarget(s) ==
    \E q \in 1..(Len(s) - 1) :
        /\ s[q] = RBRACKET /\ s[q + 1] = LPAREN
        /\ \A r \in (q + 2)..Len(s) : s[r] # RPAREN

\* The char at 1-based index p of l lies in a construct opened before it.
OpenAt(l, p) ==
    LET before == SubSeq(l, 1, p - 1)
    IN  \/ CountChar(before, BACKTICK) % 2 = 1
        \/ NestDepth(before, LT, GT) > 0
        \/ NestDepth(before, LBRACKET, RBRACKET) > 0
        \/ InLinkTarget(before)

\* The char at 1-based index p of l lies inside a construct that is opened
\* before it and closed after it.
InsideAt(l, p) ==
    LET before == SubSeq(l, 1, p - 1)
        after == SubSeq(l, p + 1, Len(l))
    IN  \/ (CountChar(before, BACKTICK) % 2 = 1 /\ CountChar(after, BACKTICK) > 0)
        \/ (NestDepth(before, LT, GT) > 0 /\ CountChar(after, GT) > 0)
        \/ (NestDepth(before, LBRACKET, RBRACKET) > 0 /\ CountChar(after, RBRACKET) > 0)
        \/ (InLinkTarget(before) /\ CountChar(after, RPAREN) > 0)

\* The 1-based index of the first '#' of l (0 for none).
FirstHash(l) ==
    LET I == {k \in 1..Len(l) : l[k] = HASH}
    IN  IF I = {} THEN 0 ELSE MinOf(I)

\* The 1-based index of the last '#' of the run that starts at p.
RunEnd(l, p) ==
    LET I == {k \in p..Len(l) : l[k] # HASH}
    IN  IF I = {} THEN Len(l) ELSE MinOf(I) - 1

\* l is prose, then an unprotected run of '#' followed by whitespace.
IsMergedHeader(l) ==
    LET p == FirstHash(l)
    IN  /\ p > 1
        /\ trim(SubSeq(l, 1, p - 1)) # <<>>
        /\ ~OpenAt(l, p)
        /\ RunEnd(l, p) < Len(l)
        /\ is_whitespace(l[RunEnd(l, p) + 1])

(***************************************************************************)
(* C6.  A line of prose directly followed by an unprotected run of '#'     *)
(* and whitespace is split in two: the prose ends a block of the returned  *)
(* text, and after one blank line the '#'-run with the rest of the line    *)
(* starts the next block.                                                  *)
(***************************************************************************)
\* Line idx (1-based) of content_lines was split at its first '#' into the
\* processed sub-lines k and k + 1, and these end and start a block.
SplitInOutput(idx, k) ==
    LET l == trim_end(content_lines[idx])
        p == FirstHash(l)
    IN  /\ trace[k].line = idx - 1 /\ trace[k].sub = 0
        /\ trace[k + 1].line = idx - 1 /\ trace[k + 1].sub = 1
        /\ trace[k].text = trim(SubSeq(l, 1, p - 1))
        /\ trace[k + 1].text = SubSeq(l, p, Len(l))
        /\ OutPos(k + 1) = OutPos(k) + 2
        /\ OutPos(k + 1) <= Len(lines(output))
        /\ trim_start(lines(output)[OutPos(k)]) = trace[k].text
        /\ lines(output)[OutPos(k) + 1] = <<>>
        /\ lines(output)[OutPos(k + 1)] = trace[k + 1].text

C6_MergedHeaderSplit ==
    pc = "done" =>
        \A idx \in 1..Len(content_lines) :
            IsMergedHeader(trim_end(content_lines[idx]))
            => \E k \in 1..(Processed - 1) : SplitInOutput(idx, k)

(***************************************************************************)
(* C7.  A '#' inside inline code, inside a link label or target, or inside *)
(* an HTML tag never triggers a split: a line all of whose '#' are so      *)
(* protected comes back from the header splitter as a single element.      *)
(***************************************************************************)
C7_ProtectedHashNeverSplits ==
    pc = "sub" =>
        LET l == trim_end(content_lines[i + 1])
        IN  (\A p \in 1..Len(l) : l[p] = HASH => InsideAt(l, p)) => Len(split_lines) = 1

(***************************************************************************)
(* C10.  While the code-block flag is set, between the opening fence and   *)
(* the closing fence, no line is classified Header or ListItem.            *)
(***************************************************************************)
IsFence(k) == starts_with(trace[k].text, FENCE)

C10_NoListOrHeaderInCodeBlock ==
    \A a \in 1..Processed : \A k \in (a + 1)..Processed : \A b \in (k + 1)..Processed :
        (/\ IsFence(a) /\ trace[a].in_code_block
         /\ IsFence(b)
         /\ \A m \in (a + 1)..(b - 1) : ~IsFence(m))
        => trace[k].type.kind \notin {"Header", "ListItem"}

(***************************************************************************)
(* Normalized form, as the specification words it: blocks separated by     *)
(* exactly one blank line, a list being one block of adjacent item lines,  *)
(* list items indented 4 spaces per depth level, headers on lines of their *)
(* own, no trailing whitespace.                                            *)
(***************************************************************************)
IsNumberItem(l) == IsDottedNumbering(first_token(trim_start(l)))

IsLetterItem(l) ==
    LET t == first_token(trim_start(l))
    IN  Len(t) = 2 /\ is_ascii_lowercase(t[1]) /\ t[2] = DOT

IsBulletItem(l) == first_token(trim_start(l)) \in {<<STAR>>, <<DASH>>}

IsListLine(l) == IsNumberItem(l) \/ IsLetterItem(l) \/ IsBulletItem(l)

\* Every '#' of l is in a run at the start of l and a space follows the run.
IsCleanHeader(l) ==
    /\ l[1] = HASH
    /\ RunEnd(l, 1) < Len(l) /\ l[RunEnd(l, 1) + 1] = SPACE
    /\ \A k \in 1..Len(l) : l[k] = HASH => k <= RunEnd(l, 1)

InNormalizedForm(x) ==
    LET L == lines(x)
        n == Len(L)
    IN  /\ n >= 1 /\ L[1] # <<>> /\ L[n] # <<>>
        /\ \A k \in 1..n : TrailingWs(L[k]) = 0
        /\ \A k \in 1..n : BACKTICK \notin {L[k][q] : q \in 1..Len(L[k])}
        /\ \A k \in 1..n : HASH \in {L[k][q] : q \in 1..Len(L[k])} => IsCleanHeader(L[k])
        /\ \A k \in 1..(n - 1) : ~(L[k] = <<>> /\ L[k + 1] = <<>>)
        /\ \A k \in 1..(n - 1) :
               (L[k] # <<>> /\ L[k + 1] # <<>>) => (IsListLine(L[k]) /\ IsListLine(L[k + 1]))
        /\ \A k \in 1..n : ~IsListLine(L[k]) => IndentOf(L[k]) = 0
        /\ \A k \in 1..n : IsBulletItem(L[k]) => IndentOf(L[k]) = 0
        /\ \A k \in 1..n :
               IsNumberItem(L[k])
               => IndentOf(L[k]) = INDENT_WIDTH * (DigitGroups(first_token(trim_start(L[k]))) - 1)
        /\ \A k \in 1..n :
               IsLetterItem(L[k])
               => /\ k > 1
                  /\ \/ IsNumberItem(L[k - 1]) /\ IndentOf(L[k]) = IndentOf(L[k - 1]) + INDENT_WIDTH
                     \/ IsLetterItem(L[k - 1]) /\ IndentOf(L[k]) = IndentOf(L[k - 1])

(***************************************************************************)
(* C2.  Idempotence: for a text x in normalized form, headers after the    *)
(* first line and runs of lettered sub-items included,                     *)
(* normalize_markdown(x, x) is x up to trailing whitespace.                *)
(***************************************************************************)
C2_Idempotent ==
    (pc = "done" /\ plain = markdown /\ InNormalizedForm(markdown))
    => trim_end(output) = trim_end(markdown)

(***************************************************************************)
(* C3 as stated.  For an empty reference, a reference with no blank-line   *)
(* delimited paragraph, and for empty markdown, the boundary locator       *)
(* returns the full range (0, number of markdown lines).                   *)
(***************************************************************************)
C3_FullRange ==
    (pc # "start" /\ (plain = <<>> \/ ~contains(plain, SEP_PARA) \/ markdown = <<>>))
    => (start_idx = 0 /\ end_idx = Len(lines(markdown)))

(***************************************************************************)
(* C3 amended.  When the first paragraph of the reference is empty (an     *)
(* empty or blank reference) or the markdown is empty, the located range   *)
(* starts at line 0 and ends at the last trailer line after line 0, or at  *)
(* the number of markdown lines when there is no such line; every          *)
(* non-blank line of that range is processed.                              *)
(***************************************************************************)
\* 0-based indices after line 0 of the trailer lines of the markdown.
TrailersAfterFirst ==
    {t \in 1..(Len(lines(markdown)) - 1) : IsTrailerLine(lines(markdown)[t + 1])}

IsDegenerateReference == trim(first_paragraph(plain)) = <<>> \/ markdown = <<>>

C3_EmptyReferenceRange ==
    (pc # "start" /\ IsDegenerateReference)
    => /\ start_idx = 0
       /\ end_idx = IF TrailersAfterFirst = {} THEN Len(lines(markdown))
                    ELSE MaxOf(TrailersAfterFirst)
       /\ pc = "done" =>
              \A t \in 0..(end_idx - 1) :
                  trim(lines(markdown)[t + 1]) # <<>> => \E k \in 1..Processed : trace[k].line = t

C3_Witness ==
    /\ pc = "done" /\ plain = <<>>
    /\ Cardinality(TrailersAfterFirst) >= 2
    /\ end_idx = MaxOf(TrailersAfterFirst)
    /\ Processed >= 2

(***************************************************************************)
(* C11.  A list item whose first token has no dotted numbering and that    *)
(* follows a list item of the same marker kind is emitted at depth         *)
(* floor(leading whitespace of the input line / 4): a bullet indented by   *)
(* 4k spaces in the input is indented by 4k spaces in the output.          *)
(***************************************************************************)
\* The input line that processed sub-line k comes from.
InputLine(k) == content_lines[trace[k].line + 1]

\* tok has no dot that follows a digit.
HasNoDottedNumbering(tok) ==
    \A q \in 2..Len(tok) : ~(tok[q] = DOT /\ is_ascii_digit(tok[q - 1]))

\* Processed sub-line k is a whole input line and a list item in its own
\* right; k - 1 is the list item of the line before it, of the same kind.
FollowsSameKind(k) ==
    /\ k > 1
    /\ trace[k].type.kind = "ListItem" /\ ~trace[k].continuation
    /\ trace[k - 1].type.kind = "ListItem" /\ ~trace[k - 1].continuation
    /\ trace[k].type.marker = trace[k - 1].type.marker
    /\ trace[k].sub = 0 /\ trace[k - 1].sub = 0
    /\ trace[k].line = trace[k - 1].line + 1
    /\ trim(InputLine(k)) = trace[k].text

C11_IndentationFallback ==
    pc = "done" =>
        \A k \in 1..Processed :
            (FollowsSameKind(k) /\ HasNoDottedNumbering(first_token(trace[k].text)))
            => IndentOf(OutLine(k)) = INDENT_WIDTH * (IndentOf(InputLine(k)) \div INDENT_WIDTH)

(***************************************************************************)
(* C12.  A continuation line (no list marker, directly after a list item,  *)
(* satisfying the continuation rule) is emitted in the same output block   *)
(* as the list item it continues: no blank line comes between them.        *)
(***************************************************************************)
\* Processed sub-line k is a continuation line on the input line right after
\* the list item k - 1.
ContinuesItem(k) ==
    /\ k > 1
    /\ trace[k].continuation
    /\ get_list_marker(trace[k].text) = "None"
    /\ trace[k - 1].type.kind = "ListItem" /\ ~trace[k - 1].continuation
    /\ trace[k].sub = 0 /\ trace[k - 1].sub = 0
    /\ trace[k].line = trace[k - 1].line + 1
    /\ trim(InputLine(k - 1)) = trace[k - 1].text

C12_ContinuationSameBlock ==
    pc = "done" =>
        \A k \in 1..Processed :
            ContinuesItem(k)
            => /\ trace[k].block = trace[k - 1].block
               /\ OutPos(k) = OutPos(k - 1) + 1

(***************************************************************************)
(* The comparison form, as the specification words it: alphanumerics only, *)
(* whitespace collapsed to single spaces, none at either end.              *)
(***************************************************************************)
RECURSIVE Squash(_)
\* t with every run of whitespace replaced by one space and no whitespace at
\* its end (one space may remain at its start).
Squash(t) ==
    IF t = <<>> THEN <<>>
    ELSE LET r == Squash(Tail(t))
         IN  IF is_whitespace(Head(t))
             THEN (IF r = <<>> \/ r[1] = SPACE THEN r ELSE <<SPACE>> \o r)
             ELSE <<Head(t)>> \o r

IsKept(c) == is_alphanumeric(c) \/ is_whitespace(c)

ComparisonForm(t) ==
    LET r == Squash(SelectSeq(t, IsKept))
    IN  IF r # <<>> /\ r[1] = SPACE THEN Tail(r) ELSE r

\* The first paragraph of the reference: the text before its first blank line.
ReferenceParagraph == trim(first_paragraph(plain))

\* The window of WINDOW lines that starts at 0-based line w holds the
\* reference paragraph, both in comparison form.
WindowMatches(w) ==
    LET L == lines(markdown)
    IN  /\ w + WINDOW <= Len(L)
        /\ contains(ComparisonForm(join(SubSeq(L, w + 1, w + WINDOW), <<SPACE>>)),
                    ComparisonForm(ReferenceParagraph))

MatchingWindows == {w \in 0..(Len(lines(markdown)) - 1) : WindowMatches(w)}

(***************************************************************************)
(* C13.  The start index is the index of the first 3-line window of the    *)
(* markdown whose comparison form contains that of the first paragraph of  *)
(* the reference; it is 0 when no window matches, in particular when the   *)
(* markdown has fewer than 3 lines.                                        *)
(***************************************************************************)
\* The boundary locator has just returned.
Located == pc = "line" /\ i = 0

C13_StartIsFirstMatchingWindow ==
    Located =>
        /\ start_idx = IF MatchingWindows = {} THEN 0 ELSE MinOf(MatchingWindows)
        /\ Len(lines(markdown)) < WINDOW => start_idx = 0

C13_Witness ==
    /\ pc = "done"
    /\ start_idx >= 1
    /\ Cardinality(MatchingWindows) >= 2
    /\ ReferenceParagraph # ComparisonForm(ReferenceParagraph)
    /\ ~contains(markdown, ComparisonForm(ReferenceParagraph))

(***************************************************************************)
(* C14.  The end index is the greatest line index strictly greater than    *)
(* the start index whose line contains "## Related posts", "Blog Comments" *)
(* or "Contents", or starts with "##" and does not contain "Summary"; it   *)
(* is the number of lines when no line after the start index qualifies.    *)
(* A marker on the start line or before it is never chosen.                *)
(***************************************************************************)
IsEndMarker(line) ==
    \/ \E q \in 0..Len(line) : starts_with(SubSeq(line, q + 1, Len(line)), RELATED_POSTS)
    \/ \E q \in 0..Len(line) : starts_with(SubSeq(line, q + 1, Len(line)), BLOG_COMMENTS)
    \/ \E q \in 0..Len(line) : starts_with(SubSeq(line, q + 1, Len(line)), CONTENTS)
    \/ /\ Len(line) >= 2 /\ line[1] = HASH /\ line[2] = HASH
       /\ \A q \in 0..Len(line) : ~starts_with(SubSeq(line, q + 1, Len(line)), SUMMARY)

\* 0-based indices of the end markers of the markdown.
EndMarkers == {t \in 0..(Len(lines(markdown)) - 1) : IsEndMarker(lines(markdown)[t + 1])}

C14_EndIsLastMarkerAfterStart ==
    Located =>
        LET after == {t \in EndMarkers : t > start_idx}
        IN  /\ end_idx = IF after = {} THEN Len(lines(markdown)) ELSE MaxOf(after)
            /\ end_idx > start_idx \/ end_idx = Len(lines(markdown))

C14_Witness ==
    /\ pc = "done"
    /\ start_idx >= 1
    /\ start_idx \in EndMarkers
    /\ end_idx < Len(lines(markdown))
    /\ end_idx \in EndMarkers

(***************************************************************************)
(* C15.  classify(line, in_code_block) applies its rules in this priority: *)
(* whitespace-only -> Normal; trimmed text starting with '#' -> Header;    *)
(* first token starting with a digit -> ListItem/Number, with a lowercase  *)
(* letter -> ListItem/Letter (prose that begins with a lowercase letter    *)
(* included), with '*' or '-' -> ListItem/Bullet; else a line starting     *)
(* with three backticks -> CodeBlockEnd if in_code_block, CodeBlockStart   *)
(* if not; else Normal.                                                    *)
(***************************************************************************)
\* Kind and marker the rules give to a line.
RuleClass(line, is_in_code_block) ==
    LET t == trim_start(line)
    IN  IF t = <<>> THEN <<"Normal", "-">>
        ELSE IF t[1] = HASH THEN <<"Header", "-">>
        ELSE IF t[1] \in 48..57 THEN <<"ListItem", "Number">>
        ELSE IF t[1] \in 97..122 THEN <<"ListItem", "Letter">>
        ELSE IF t[1] \in {STAR, DASH} THEN <<"ListItem", "Bullet">>
        ELSE IF Len(t) >= 3 /\ t[1] = BACKTICK /\ t[2] = BACKTICK /\ t[3] = BACKTICK
             THEN (IF is_in_code_block THEN <<"CodeBlockEnd", "-">> ELSE <<"CodeBlockStart", "-">>)
        ELSE <<"Normal", "-">>

\* Kind and marker of a block type.
ClassOf(type) == <<type.kind, IF type.kind = "ListItem" THEN type.marker ELSE "-">>

\* The input line after the one of processed sub-line k exists.
HasNextLine(k) == trace[k].line + 2 <= Len(content_lines)

C15_ClassifierRules ==
    pc = "done" =>
        \A k \in 1..Processed :
            /\ ~trace[k].continuation
               => ClassOf(trace[k].type) = RuleClass(trace[k].text, trace[k].in_code_block)
            /\ HasNextLine(k)
               => ClassOf(trace[k].next_type)
                      = RuleClass(content_lines[trace[k].line + 2], trace[k].in_code_block)

C15_Witness ==
    /\ pc = "done"
    /\ \E k \in 1..Processed :
           /\ ~trace[k].continuation
           /\ trace[k].text = <<120, 121, 32, 122>>
           /\ ClassOf(trace[k].type) = <<"ListItem", "Letter">>
           /\ HasNextLine(k)
           /\ content_lines[trace[k].line + 2] = <<32, 32, 32>>
           /\ ClassOf(trace[k].next_type) = <<"Normal", "-">>
    /\ \E k \in 1..Processed : ClassOf(trace[k].type) = <<"ListItem", "Bullet">>

(***************************************************************************)
(* Depth of emitted list items.                                            *)
(***************************************************************************)
\* The block type of the sub-line processed before k (Normal at the start).
PrevType(k) == IF k = 1 THEN Normal ELSE trace[k - 1].type

\* Processed sub-line k is a list item in its own right.
IsOwnItem(k) == trace[k].type.kind = "ListItem" /\ ~trace[k].continuation

\* The item k follows a list item of the other alphanumeric marker kind.
CrossesKind(k) ==
    /\ PrevType(k).kind = "ListItem"
    /\ \/ PrevType(k).marker = "Number" /\ trace[k].type.marker = "Letter"
       \/ PrevType(k).marker = "Letter" /\ trace[k].type.marker = "Number"

\* The text of sub-line k behind 4 spaces per level of depth d.
IndentedAt(k, d) == [q \in 1..(INDENT_WIDTH * d) |-> SPACE] \o trim_start(trace[k].text)

(***************************************************************************)
(* C16 as stated.  A list item whose previous block is not a list item of  *)
(* the other alphanumeric marker kind is indented at its own computed      *)
(* depth; a first list item after prose or a header with numbering of      *)
(* depth k is emitted with 4*k leading spaces.                             *)
(***************************************************************************)
C16_OwnDepthUnlessCrossing ==
    pc = "done" =>
        \A k \in 1..Processed :
            (IsOwnItem(k) /\ ~CrossesKind(k)) => OutLine(k) = IndentedAt(k, trace[k].type.depth)

(***************************************************************************)
(* C16 amended.  A list item that follows a list item, other than a        *)
(* lettered item after a numeric one or a numeric item after a lettered    *)
(* one, is emitted as its trimmed text behind 4 spaces per level of its    *)
(* own computed depth; a list item whose previous block is not a list item *)
(* is emitted without indentation, whatever its numbering.                 *)
(***************************************************************************)
C16_OwnDepthAfterListItem ==
    pc = "done" =>
        \A k \in 1..Processed :
            (IsOwnItem(k) /\ ~CrossesKind(k))
            => OutLine(k) = IndentedAt(k, IF PrevType(k).kind = "ListItem"
                                          THEN trace[k].type.depth ELSE 0)

C16_Witness ==
    /\ pc = "done"
    /\ \E k \in 2..Processed :
           /\ IsOwnItem(k) /\ ~CrossesKind(k)
           /\ PrevType(k).kind = "ListItem"
           /\ trace[k].type.depth >= 1
           /\ PrevType(k).depth = 0
           /\ IndentOf(OutLine(k)) = INDENT_WIDTH * trace[k].type.depth
    /\ \E k \in 1..Processed :
           /\ IsOwnItem(k)
           /\ PrevType(k).kind # "ListItem"
           /\ trace[k].type.depth >= 1

(***************************************************************************)
(* C17.  The first item of a list, i.e. a list item that directly follows  *)
(* a header, prose or a fence, is emitted with zero indentation whatever   *)
(* depth its numbering token yields.                                       *)
(***************************************************************************)
C17_FirstItemUnindented ==
    pc = "done" =>
        \A k \in 1..Processed :
            (IsOwnItem(k) /\ PrevType(k).kind # "ListItem") => IndentOf(OutLine(k)) = 0

C17_Witness ==
    /\ pc = "done"
    /\ \E k \in 2..Processed :
           /\ IsOwnItem(k)
           /\ PrevType(k).kind \in {"Header", "Normal"}
           /\ trace[k].type.depth >= 1
           /\ OutLine(k) = trace[k].text

(***************************************************************************)
(* C18.  A continuation line that follows a list item of depth d is        *)
(* emitted indented at depth d + 1, i.e. behind 4*(d+1) spaces.            *)
(***************************************************************************)
C18_ContinuationNested ==
    pc = "done" =>
        \A k \in 2..Processed :
            (trace[k].continuation /\ get_list_marker(trace[k].text) = "None")
            => OutLine(k) = IndentedAt(k, PrevType(k).depth + 1)

(***************************************************************************)
(* C19.  A list item that directly follows a list item of the other        *)
(* alphanumeric marker kind is emitted at a depth derived from the         *)
(* computed depth of the item before it: that depth + 1 for a lettered     *)
(* item after a numeric one, max(0, that depth - 1) for a numeric item     *)
(* after a lettered one.  For every other pair of marker kinds the item is *)
(* emitted at its own computed depth.                                      *)
(***************************************************************************)
\* The depth this claim gives to the item k, which follows a list item.
TransitionDepth(k) ==
    LET prev == PrevType(k)
        own == trace[k].type
    IN  IF prev.marker = "Number" /\ own.marker = "Letter" THEN prev.depth + 1
        ELSE IF prev.marker = "Letter" /\ own.marker = "Number"
             THEN (IF prev.depth >= 1 THEN prev.depth - 1 ELSE 0)
        ELSE own.depth

C19_MarkerTransitionDepth ==
    pc = "done" =>
        \A k \in 2..Processed :
            (IsOwnItem(k) /\ PrevType(k).kind = "ListItem")
            => IndentOf(OutLine(k)) = INDENT_WIDTH * TransitionDepth(k)

C19_Witness ==
    /\ pc = "done"
    /\ \E k \in 2..Processed :
           /\ IsOwnItem(k) /\ CrossesKind(k)
           /\ trace[k].type.marker = "Letter"
           /\ PrevType(k).depth >= 1
           /\ IndentOf(OutLine(k)) = INDENT_WIDTH * (PrevType(k).depth + 1)
    /\ \E k \in 2..Processed :
           /\ IsOwnItem(k) /\ CrossesKind(k)
           /\ trace[k].type.marker = "Number"
           /\ trace[k].type.depth >= 1
           /\ IndentOf(OutLine(k)) = 0

(***************************************************************************)
(* C20.  The header splitter also splits at an unprotected run of '#' that *)
(* ends the line: a line with non-blank content followed by a '#'-run at   *)
(* the end of the line comes back as two elements, the trimmed content and *)
(* the '#'-run.                                                            *)
(***************************************************************************)
\* l is content, then an unprotected run of '#' that ends the line.
EndsWithHashRun(l) ==
    LET p == FirstHash(l)
    IN  /\ p > 1
        /\ trim(SubSeq(l, 1, p - 1)) # <<>>
        /\ ~OpenAt(l, p)
        /\ RunEnd(l, p) = Len(l)

C20_SplitsAtRunEndingLine ==
    pc = "sub" =>
        LET l == trim_end(content_lines[i + 1])
            p == FirstHash(l)
        IN  EndsWithHashRun(l)
            => split_lines = <<trim(SubSeq(l, 1, p - 1)), SubSeq(l, p, Len(l))>>

(***************************************************************************)
(* C21.  For an ASCII line with non-blank content the header splitter      *)
(* returns either the trimmed line as its one element, or two non-empty    *)
(* trimmed elements, the text before and the text from the first           *)
(* unprotected '#'-run that is followed by whitespace; nothing after that  *)
(* marker is split again, and a line with no content before its first      *)
(* marker is returned as one element, later markers or not.                *)
(***************************************************************************)
IsAscii(l) == \A q \in 1..Len(l) : l[q] < 128

\* 1-based indices of the '#' of l that are unprotected and whose run is
\* followed by whitespace.
HeaderMarkers(l) ==
    {p \in 1..Len(l) :
        /\ l[p] = HASH
        /\ ~OpenAt(l, p)
        /\ RunEnd(l, p) < Len(l)
        /\ is_whitespace(l[RunEnd(l, p) + 1])}

\* What the claim says the splitter returns for the line l.
SplitAtFirstMarker(l) ==
    IF HeaderMarkers(l) = {} \/ trim(SubSeq(l, 1, MinOf(HeaderMarkers(l)) - 1)) = <<>>
    THEN <<trim(l)>>
    ELSE <<trim(SubSeq(l, 1, MinOf(HeaderMarkers(l)) - 1)),
           SubSeq(l, MinOf(HeaderMarkers(l)), Len(l))>>

C21_SplitsOnceAtFirstMarker ==
    pc = "sub" =>
        LET l == trim_end(content_lines[i + 1])
        IN  IsAscii(l) => split_lines = SplitAtFirstMarker(l)

(***************************************************************************)
(* Blocks of the returned text.                                            *)
(***************************************************************************)
\* Processed sub-line k begins a block of the returned text.
BeginsBlock(k) ==
    /\ k = 1 \/ trace[k - 1].block < trace[k].block
    /\ OutPos(k) <= Len(lines(output))
    /\ OutPos(k) = 1 \/ lines(output)[OutPos(k) - 1] = <<>>

\* Processed sub-line k ends a block of the returned text.
EndsBlock(k) ==
    /\ k = Processed \/ trace[k + 1].block > trace[k].block
    /\ OutPos(k) <= Len(lines(output))
    /\ OutPos(k) = Len(lines(output)) \/ lines(output)[OutPos(k) + 1] = <<>>

(***************************************************************************)
(* C22.  Every line classified Header is emitted as a block that consists  *)
(* of that line alone: what precedes it is flushed before it and it is     *)
(* flushed right after, whatever the types of the lines around it.         *)
(***************************************************************************)
C22_HeaderAloneInBlock ==
    pc = "done" =>
        \A k \in 1..Processed :
            trace[k].type = Header
            => /\ BeginsBlock(k) /\ EndsBlock(k)
               /\ OutLine(k) = trace[k].text

\* A header that is the first piece of a split line, the header split off
\* it right behind.
C22_Witness ==
    /\ pc = "done"
    /\ \E k \in 1..(Processed - 1) :
           /\ trace[k].type = Header /\ trace[k].sub = 0
           /\ trace[k + 1].type = Header /\ trace[k + 1].sub = 1
           /\ lines(output)[OutPos(k) + 1] = <<>>

(***************************************************************************)
(* C23.  The fence line that opens a code block is classified              *)
(* CodeBlockStart and begins a new block of the output, never joining the  *)
(* block of the prose before it; the fence line that closes the code block *)
(* is classified CodeBlockEnd and is the last line of its block.           *)
(***************************************************************************)
\* The fence k opens a code block: the flag is set once it is read.
OpensCodeBlock(k) == IsFence(k) /\ trace[k].in_code_block

\* The fence k closes a code block: the flag is clear once it is read.
ClosesCodeBlock(k) == IsFence(k) /\ ~trace[k].in_code_block

C23_FencesDelimitBlocks ==
    pc = "done" =>
        \A k \in 1..Processed :
            /\ OpensCodeBlock(k) => (trace[k].type = CodeBlockStart /\ BeginsBlock(k))
            /\ ClosesCodeBlock(k) => (trace[k].type = CodeBlockEnd /\ EndsBlock(k))

(***************************************************************************)
(* C24.  List context delimits blocks: the first list item after a         *)
(* non-list line begins a new block, the first line after a list that is   *)
(* neither a list item nor a continuation begins a new block, and after    *)
(* every processed line in_list is true exactly when the effective type of *)
(* that line is ListItem.                                                  *)
(***************************************************************************)
C24_ListContextDelimitsBlocks ==
    /\ in_list = (prev_block_type.kind = "ListItem")
    /\ \A k \in 1..Processed : trace[k].in_list = (trace[k].type.kind = "ListItem")
    /\ pc = "done" =>
           \A k \in 1..Processed :
               /\ (trace[k].type.kind = "ListItem" /\ PrevType(k).kind # "ListItem")
                  => BeginsBlock(k)
               /\ (trace[k].type.kind # "ListItem" /\ PrevType(k).kind = "ListItem")
                  => BeginsBlock(k)

\* Prose, a list item, and a line that leaves the list.
C24_Witness ==
    /\ pc = "done"
    /\ \E k \in 2..(Processed - 1) :
           /\ PrevType(k).kind = "Normal"
           /\ trace[k].type.kind = "ListItem"
           /\ ~trace[k + 1].continuation
           /\ trace[k + 1].type.kind = "Normal"
           /\ trace[k].block = trace[k - 1].block + 1
           /\ trace[k + 1].block = trace[k].block + 1

(***************************************************************************)
(* C25.  Two list-item lines that are adjacent in the input are emitted in *)
(* the same block, on consecutive lines with no blank line between them,   *)
(* whatever their marker kinds and depths.                                 *)
(***************************************************************************)
\* Processed sub-line k is a whole input line and a list item by its own marker.
IsItemLine(k) ==
    /\ IsOwnItem(k)
    /\ trace[k].sub = 0
    /\ trim(InputLine(k)) = trace[k].text
    /\ get_list_marker(trace[k].text) # "None"

C25_AdjacentItemsShareBlock ==
    pc = "done" =>
        \A k \in 1..(Processed - 1) :
            (IsItemLine(k) /\ IsItemLine(k + 1) /\ trace[k + 1].line = trace[k].line + 1)
            => /\ trace[k + 1].block = trace[k].block
               /\ OutPos(k + 1) <= Len(lines(output))
               /\ trim_start(lines(output)[OutPos(k)]) = trace[k].text
               /\ trim_start(lines(output)[OutPos(k) + 1]) = trace[k + 1].text

\* A numeric, a lettered and a composite item on adjacent lines.
C25_Witness ==
    /\ pc = "done"
    /\ \E k \in 1..(Processed - 2) :
           /\ IsItemLine(k) /\ IsItemLine(k + 1) /\ IsItemLine(k + 2)
           /\ trace[k + 1].line = trace[k].line + 1
           /\ trace[k + 2].line = trace[k].line + 2
           /\ trace[k].type.marker # trace[k + 1].type.marker
           /\ trace[k + 2].type.depth >= 1
           /\ trace[k + 2].block = trace[k].block

(***************************************************************************)
(* C26.  A line is treated as a list continuation exactly when the         *)
(* previous effective type is ListItem of depth d, the line has no list    *)
(* marker of its own, and its computed depth is > d, or equals d with the  *)
(* line not starting with '#'.  A continuation takes the previous ListItem *)
(* type verbatim; a line after a non-list type is never a continuation.    *)
(***************************************************************************)
\* The continuation rule for the text of sub-line k after its predecessor.
ContinuationRule(k) ==
    /\ PrevType(k).kind = "ListItem"
    /\ RuleClass(trace[k].text, FALSE)[1] # "ListItem"
    /\ \/ get_list_depth(trace[k].text) > PrevType(k).depth
       \/ /\ get_list_depth(trace[k].text) = PrevType(k).depth
          /\ trace[k].text[1] # HASH

C26_ContinuationRule ==
    \A k \in 1..Processed :
        /\ trace[k].continuation = ContinuationRule(k)
        /\ trace[k].continuation => trace[k].type = PrevType(k)
        /\ PrevType(k).kind # "ListItem" => ~trace[k].continuation

\* A line without marker that continues an item of depth 1 at equal depth,
\* then a '#' line of that depth, which does not continue it.
C26_Witness ==
    /\ pc = "done"
    /\ \E k \in 2..(Processed - 1) :
           /\ trace[k].continuation
           /\ PrevType(k).depth >= 1
           /\ get_list_depth(trace[k].text) = PrevType(k).depth
           /\ trace[k].type = PrevType(k)
           /\ ~trace[k + 1].continuation
           /\ get_list_depth(trace[k + 1].text) = trace[k].type.depth
           /\ trace[k + 1].type = Header

(***************************************************************************)
(* C27.  The effective type of a processed line is a function only of the  *)
(* text of the line, the effective type of the line processed before it    *)
(* and the code-block flag: whatever the earlier lines, the in_list flag,  *)
(* the pending block or the reference are, these three values fix the      *)
(* type; and a type once assigned is never revised.                        *)
(***************************************************************************)
\* The type as a function of the three values.
EffectiveType(text, prev_type, code_flag) ==
    IF is_list_continuation(text, prev_type) THEN prev_type
    ELSE get_block_type(text, code_flag, FALSE)

TypesFollowFunction ==
    \A k \in 1..Processed :
        trace[k].type = EffectiveType(trace[k].text, PrevType(k), trace[k].in_code_block)

TypesKept ==
    /\ Len(trace') >= Len(trace)
    /\ \A k \in 1..Len(trace) : trace'[k].type = trace[k].type

C27_TypeIsLocal == []TypesFollowFunction /\ [][TypesKept]_vars

\* The same text twice in one run, after two different lines of the same
\* type and under the same flag, and typed alike.
C27_Witness ==
    /\ pc = "done"
    /\ \E k \in 2..Processed : \E m \in (k + 1)..Processed :
           /\ trace[k].text = trace[m].text
           /\ PrevType(k) = PrevType(m)
           /\ trace[k].in_code_block = trace[m].in_code_block
           /\ trace[k - 1].text # trace[m - 1].text
           /\ trace[k].type = trace[m].type

(***************************************************************************)
(* C28.  For every markdown and reference the boundary locator returns     *)
(* (start, end) with 0 <= start <= end <= number of markdown lines: the    *)
(* range handed to the reflow loop is a valid, possibly empty, slice.      *)
(***************************************************************************)
C28_RangeIsValidSlice ==
    pc # "start" =>
        /\ 0 <= start_idx
        /\ start_idx <= end_idx
        /\ end_idx <= Len(lines(markdown))

\* Head and tail are both cut, with a trailer line at or before the start.
C28_Witness ==
    /\ pc = "done"
    /\ 0 < start_idx
    /\ end_idx < Len(lines(markdown))
    /\ \E t \in 0..start_idx : IsEndMarker(lines(markdown)[t + 1])
    /\ Len(content_lines) = end_idx - start_idx

(***************************************************************************)
(* C29.  Content preservation: for ASCII input the returned text, with its *)
(* blank lines removed and the leading whitespace of each line stripped,   *)
(* is the sequence of the non-empty trimmed sub-lines that header          *)
(* splitting yields for the lines in [start, end), in order and with       *)
(* multiplicity: no line is dropped, duplicated or reordered, and nothing  *)
(* but indentation and newlines is inserted.                               *)
(***************************************************************************)
IsNonEmpty(l) == l # <<>>

\* The non-empty trimmed pieces of one input line.
SubLinesOf(l) ==
    LET r == split_header_content(trim_end(l)).result
    IN  SelectSeq([q \in 1..Len(r) |-> trim(r[q])], IsNonEmpty)

RECURSIVE SubLinesOfAll(_)
SubLinesOfAll(ls) ==
    IF ls = <<>> THEN <<>> ELSE SubLinesOf(Head(ls)) \o SubLinesOfAll(Tail(ls))

\* The lines of the returned text that are not blank, without indentation.
StrippedOutput ==
    LET kept == SelectSeq([q \in 1..Len(lines(output)) |-> trim_start(lines(output)[q])],
                          IsNonEmpty)
    IN  kept

C29_ContentPreserved ==
    (pc = "done" /\ IsAscii(markdown)) => StrippedOutput = SubLinesOfAll(content_lines)

\* A block flushed by the pre-spacing of a fence, a head and a tail cut off,
\* or a split line: here the first, with three lines kept.
C29_Witness ==
    /\ pc = "done" /\ IsAscii(markdown)
    /\ Len(StrippedOutput) >= 3
    /\ \E k \in 2..Processed :
           /\ trace[k].type = CodeBlockStart
           /\ ~trace[k - 1].flushed
           /\ trace[k].block = trace[k - 1].block + 1

(***************************************************************************)
(* C30.  Output well-formedness: the returned text has no empty block,     *)
(* never three newlines in a row, no newline at either end; every line of  *)
(* a block is non-empty, has no trailing whitespace and is indented by a   *)
(* multiple of four spaces, and by none when it is not a list item.        *)
(***************************************************************************)
\* The text cut at every newline, blank lines kept.
RawOutputLines == SplitOn(output, NEWLINE)

NoTripleNewline ==
    \A q \in 1..(Len(output) - 2) :
        ~(output[q] = NEWLINE /\ output[q + 1] = NEWLINE /\ output[q + 2] = NEWLINE)

NoNewlineAtEdges ==
    output = <<>> \/ (output[1] # NEWLINE /\ output[Len(output)] # NEWLINE)

\* A blank line is only ever the single separator between two blocks, so
\* every block is made of non-blank lines and none is empty.
BlocksNonEmpty ==
    \A q \in 1..Len(RawOutputLines) :
        RawOutputLines[q] = <<>> =>
            \/ output = <<>>
            \/ /\ 1 < q /\ q < Len(RawOutputLines)
               /\ RawOutputLines[q - 1] # <<>> /\ RawOutputLines[q + 1] # <<>>

LeadingSpaces(l) ==
    IF \E q \in 1..Len(l) : l[q] # SPACE
    THEN (CHOOSE q \in 1..Len(l) : l[q] # SPACE /\ \A r \in 1..(q - 1) : l[r] = SPACE) - 1
    ELSE Len(l)

WellFormedLine(l) ==
    l # <<>> =>
        /\ trim_end(l) = l
        /\ LeadingSpaces(l) = IndentOf(l)
        /\ LeadingSpaces(l) % 4 = 0

C30_WellFormedOutput ==
    pc = "done" =>
        /\ NoTripleNewline
        /\ NoNewlineAtEdges
        /\ BlocksNonEmpty
        /\ \A q \in 1..Len(RawOutputLines) : WellFormedLine(RawOutputLines[q])
        /\ Len(RawOutputLines) =
               IF Processed = 0 THEN 1 ELSE Processed + trace[Processed].block - 1
        /\ \A k \in 1..Processed :
               /\ OutLine(k) # <<>>
               /\ ~IsListItem(trace[k].type) => IndentOf(OutLine(k)) = 0

\* Several blocks, an indented list item and a line that is not a list item.
C30_Witness ==
    /\ pc = "done" /\ Processed >= 3
    /\ trace[Processed].block >= 2
    /\ \E k \in 1..Processed : IsListItem(trace[k].type) /\ IndentOf(OutLine(k)) >= 4
    /\ \E k \in 1..Processed : ~IsListItem(trace[k].type)

=============================================================================
